---- MODULE Spec2Model ----
(***************************************************************************)
(* Verification model of microproxy: the upstream health tracker           *)
(* (proxyhealth.go), the Basic/Digest authentication actors and handlers   *)
(* (microproxy.go, auth handlers) and the forward-proxy resolver and       *)
(* CONNECT dial path (microproxy.go).                                      *)
(*                                                                         *)
(* Strings are sequences of one-character strings, so that SplitN,         *)
(* HasSuffix, Trim and the base64 decoder are computed, not assumed.       *)
(***************************************************************************)
EXTENDS Integers, Sequences, FiniteSets, TLC

None == "none"
NoThread == 0

(***************************************************************************)
(* Bounds                                                                  *)
(***************************************************************************)
NumHealthThreads == 2
MaxFailureLimit == 3
MaxHealthCalls == 6
MaxRules == 2
NumHandlers == 2
MaxTime == 1

VARIABLES
  \* ProxyHealth (src/proxyhealth.go:5-10)
  Healthy, FailureCount, FailureLimit,
  mutex,        \* the embedded sync.Mutex: NoThread or the thread holding it
  hpc,          \* per thread: position inside RecordFailure/RecordSuccess/IsHealthy
  htmp,         \* per thread: the value read by FailureCount++ before it is written back
  hret,         \* per thread: {} or {b}, b what the last IsHealthy read for its return
  \* history of the health tracker (observers, not program state)
  doneFailures, \* RecordFailure calls completed since the last completed RecordSuccess
  successDone,  \* some RecordSuccess has completed
  failureEver,  \* some RecordFailure has completed
  lastDoneOp,   \* the operation that completed last
  unhealthyReturns, \* IsHealthy results of false since the last p.Healthy = true
  hcalls        \* calls started so far (bounded by MaxHealthCalls)

healthVars == <<Healthy, FailureCount, FailureLimit, mutex, hpc, htmp, hret,
                doneFailures, successDone, failureEver, lastDoneOp,
                unhealthyReturns, hcalls>>

VARIABLES
  \* forward-proxy routing (src/proxyhealth.go:454-562)
  conf,        \* the Configuration: Rules, Proxies, ForwardProxyURL
  rpc,         \* position of the request on the outbound path
  rreq,        \* the request: destination host and whether it is a CONNECT
  keyOrder,    \* the key slice as left by sort.Slice
  route,       \* what findMatchingProxy returned: {} for nil, {text} for a parsed URL
  dialVia,     \* how the outbound connection was attempted
  dialOk       \* {} before the attempt, {TRUE} or {FALSE} after it

routeVars == <<conf, rpc, rreq, keyOrder, route, dialVia, dialOk>>

VARIABLES
  \* authentication (src/proxyhealth.go:102-172 and the auth handlers)
  authType,    \* conf.AuthType: "basic" or "digest"
  apc,         \* per handler: position inside the auth handler
  areq,        \* per handler: the request (Proxy-Authorization value, CONNECT or not)
  adata,       \* per handler: what the header parser returned
  aresp,       \* per handler: the last reply received from the actor
  aout,        \* per handler: how the handler ended and the nonce of its challenge
  inflight,    \* requests the actor goroutine has received and not yet replied
  nonces,      \* the nonce registry of DigestAuth: records [nonce, at]
  nextNonce,   \* numbers the nonces newNonce produces
  now,         \* the clock
  mpc,         \* position of maintPinger
  mwake,       \* when maintPinger's Sleep ends
  \* history of the actor (observers, not program state)
  pending,     \* requests received by the actor whose operation has not finished, in order
  inOrder,     \* every operation so far finished in the order the requests were received
  issued,      \* nonces sent to clients in challenges
  nonceReqs,   \* per handler: getNonce requests sent for its request
  cancelled    \* handlers whose request was cancelled while they were waiting

authVars == <<authType, apc, areq, adata, aresp, aout, inflight, nonces, nextNonce,
              now, mpc, mwake, pending, inOrder, issued, nonceReqs, cancelled>>

VARIABLES
  \* startup and outbound dialers (src/proxyhealth.go:299-368, 536-614)
  bindIP,              \* conf.BindIP
  spc,                 \* position of main in the startup sequence
  trDialContext,       \* proxy.Tr.DialContext: {} for nil, {addr} for makeCustomDialContext(addr)
  trProxy,             \* proxy.Tr.Proxy: "environment" or "rules"
  connectDialWithReq,  \* whether proxy.ConnectDialWithReq is set
  dconn                \* the outbound connection made for the last request

dialVars == <<bindIP, spc, trDialContext, trProxy, connectDialWithReq, dconn>>

VARIABLES
  \* CONNECT through an upstream proxy (src/proxyhealth.go:507-534)
  cpc,     \* position inside the function connectDialWrapper returns
  curl,    \* the userinfo part of proxyURLString: {} when the URL has none, {text} otherwise
  cuser,   \* proxyURL.User as parsed
  chdr     \* the Proxy-Authorization values of the CONNECT request

credVars == <<cpc, curl, cuser, chdr>>

VARIABLES
  \* one request in an auth handler, the actor's answer taken as given
  \* (auth handlers: getBasicAuthData ... digestConnectAuthHandler)
  ptype,    \* "basic" or "digest": which handler is installed
  prealm,   \* conf.AuthRealm
  pgen,     \* what the client put into Proxy-Authorization, before rendering
  pmethod,  \* req.Method
  phdrs,    \* req.Header: header name -> sequence of values
  pdata,    \* what the parser returned
  presp,    \* the 407 response, when one was built
  ppc       \* position inside the handler

parseVars == <<ptype, prealm, pgen, pmethod, phdrs, pdata, presp, ppc>>

vars == <<healthVars, routeVars, authVars, dialVars, credVars, parseVars>>

(***************************************************************************)
(* ProxyHealth                                                             *)
(***************************************************************************)
HealthThreads == 1..NumHealthThreads

\* A ProxyHealth is built by a composite literal (the type has no
\* constructor): FailureLimit is chosen by the caller, Healthy is whatever
\* the literal says (false when left out), FailureCount starts at zero.
InitHealth ==
  /\ Healthy \in BOOLEAN
  /\ FailureCount = 0
  /\ FailureLimit \in 0..MaxFailureLimit
  /\ mutex = NoThread
  /\ hpc = [t \in HealthThreads |-> "idle"]
  /\ htmp = [t \in HealthThreads |-> 0]
  /\ hret = [t \in HealthThreads |-> {}]
  /\ doneFailures = 0
  /\ successDone = FALSE
  /\ failureEver = FALSE
  /\ lastDoneOp = None
  /\ unhealthyReturns = 0
  /\ hcalls = 0

\* The health tracker parked: what the other specifications start from.
HealthParked ==
  /\ Healthy = TRUE
  /\ FailureCount = 0
  /\ FailureLimit = MaxFailureLimit
  /\ mutex = NoThread
  /\ hpc = [t \in HealthThreads |-> "idle"]
  /\ htmp = [t \in HealthThreads |-> 0]
  /\ hret = [t \in HealthThreads |-> {}]
  /\ doneFailures = 0
  /\ successDone = FALSE
  /\ failureEver = FALSE
  /\ lastDoneOp = None
  /\ unhealthyReturns = 0
  /\ hcalls = 0

HealthOps == {"RecordFailure", "RecordSuccess", "IsHealthy"}

FirstPc(op) ==
  CASE op = "RecordFailure" -> "rf_lock"
    [] op = "RecordSuccess" -> "rs_lock"
    [] op = "IsHealthy"     -> "ih_lock"

LockPcs == {"rf_lock", "rs_lock", "ih_lock"}
UnlockPcs == {"rf_unlock", "rs_unlock", "ih_unlock"}
CriticalPcs == {"rf_read", "rf_write", "rf_check", "rf_unlock",
                "rs_healthy", "rs_count", "rs_unlock",
                "ih_read", "ih_unlock"}

AfterLock(pc) ==
  CASE pc = "rf_lock" -> "rf_read"
    [] pc = "rs_lock" -> "rs_healthy"
    [] pc = "ih_lock" -> "ih_read"

\* sync.Mutex.Lock blocks until the mutex is free.
MutexAvailableNoWait(m) == TRUE
MutexAvailable(m) == m = NoThread

\* if p.FailureCount >= p.FailureLimit
ThresholdReachedStrict(count, limit) == count > limit
ThresholdReachedAlways(count, limit) == TRUE
ThresholdReached(count, limit) == count >= limit

\* What RecordFailure leaves in Healthy after its threshold test.
HealthyAfterFailureRecovering(healthy, count, limit) == ~ThresholdReached(count, limit)
HealthyAfterFailure(healthy, count, limit) ==
  IF ThresholdReached(count, limit) THEN FALSE ELSE healthy

\* A thread calls one of the three methods.
HealthCall(t, op) ==
  /\ hpc[t] = "idle"
  /\ hcalls < MaxHealthCalls
  /\ hpc' = [hpc EXCEPT ![t] = FirstPc(op)]
  /\ hcalls' = hcalls + 1
  /\ UNCHANGED <<Healthy, FailureCount, FailureLimit, mutex, htmp, hret,
                 doneFailures, successDone, failureEver, lastDoneOp, unhealthyReturns>>

\* p.Lock()
HealthLock(t) ==
  /\ hpc[t] \in LockPcs
  /\ MutexAvailable(mutex)
  /\ mutex' = t
  /\ hpc' = [hpc EXCEPT ![t] = AfterLock(hpc[t])]
  /\ UNCHANGED <<Healthy, FailureCount, FailureLimit, htmp, hret,
                 doneFailures, successDone, failureEver, lastDoneOp,
                 unhealthyReturns, hcalls>>

\* p.FailureCount++ : the read half
RecordFailureRead(t) ==
  /\ hpc[t] = "rf_read"
  /\ htmp' = [htmp EXCEPT ![t] = FailureCount]
  /\ hpc' = [hpc EXCEPT ![t] = "rf_write"]
  /\ UNCHANGED <<Healthy, FailureCount, FailureLimit, mutex, hret,
                 doneFailures, successDone, failureEver, lastDoneOp,
                 unhealthyReturns, hcalls>>

\* p.FailureCount++ : the write half
RecordFailureWrite(t) ==
  /\ hpc[t] = "rf_write"
  /\ FailureCount' = htmp[t] + 1
  /\ htmp' = [htmp EXCEPT ![t] = 0]
  /\ hpc' = [hpc EXCEPT ![t] = "rf_check"]
  /\ UNCHANGED <<Healthy, FailureLimit, mutex, hret,
                 doneFailures, successDone, failureEver, lastDoneOp,
                 unhealthyReturns, hcalls>>

\* if p.FailureCount >= p.FailureLimit { p.Healthy = false }
RecordFailureCheck(t) ==
  /\ hpc[t] = "rf_check"
  /\ Healthy' = HealthyAfterFailure(Healthy, FailureCount, FailureLimit)
  /\ hpc' = [hpc EXCEPT ![t] = "rf_unlock"]
  /\ UNCHANGED <<FailureCount, FailureLimit, mutex, htmp, hret,
                 doneFailures, successDone, failureEver, lastDoneOp,
                 unhealthyReturns, hcalls>>

\* p.Healthy = true
RecordSuccessHealthy(t) ==
  /\ hpc[t] = "rs_healthy"
  /\ Healthy' = TRUE
  /\ hpc' = [hpc EXCEPT ![t] = "rs_count"]
  /\ unhealthyReturns' = 0
  /\ UNCHANGED <<FailureCount, FailureLimit, mutex, htmp, hret,
                 doneFailures, successDone, failureEver, lastDoneOp, hcalls>>

\* p.FailureCount = 0
RecordSuccessCount(t) ==
  /\ hpc[t] = "rs_count"
  /\ FailureCount' = 0
  /\ hpc' = [hpc EXCEPT ![t] = "rs_unlock"]
  /\ UNCHANGED <<Healthy, FailureLimit, mutex, htmp, hret,
                 doneFailures, successDone, failureEver, lastDoneOp,
                 unhealthyReturns, hcalls>>

\* return p.Healthy : the result is evaluated before the deferred Unlock
IsHealthyRead(t) ==
  /\ hpc[t] = "ih_read"
  /\ hret' = [hret EXCEPT ![t] = {Healthy}]
  /\ hpc' = [hpc EXCEPT ![t] = "ih_unlock"]
  /\ unhealthyReturns' = IF Healthy THEN unhealthyReturns ELSE unhealthyReturns + 1
  /\ UNCHANGED <<Healthy, FailureCount, FailureLimit, mutex, htmp,
                 doneFailures, successDone, failureEver, lastDoneOp, hcalls>>

\* defer p.Unlock() : the call completes and its result goes to the caller
HealthUnlock(t) ==
  /\ hpc[t] \in UnlockPcs
  /\ mutex' = IF mutex = t THEN NoThread ELSE mutex
  /\ hpc' = [hpc EXCEPT ![t] = "idle"]
  /\ doneFailures' = CASE hpc[t] = "rf_unlock" -> doneFailures + 1
                       [] hpc[t] = "rs_unlock" -> 0
                       [] OTHER -> doneFailures
  /\ successDone' = (successDone \/ hpc[t] = "rs_unlock")
  /\ failureEver' = (failureEver \/ hpc[t] = "rf_unlock")
  /\ lastDoneOp' = CASE hpc[t] = "rf_unlock" -> "RecordFailure"
                     [] hpc[t] = "rs_unlock" -> "RecordSuccess"
                     [] OTHER -> "IsHealthy"
  /\ hret' = [hret EXCEPT ![t] = {}]
  /\ UNCHANGED <<Healthy, FailureCount, FailureLimit, htmp, unhealthyReturns, hcalls>>

NextHealth ==
  \E t \in HealthThreads :
    \/ \E op \in HealthOps : HealthCall(t, op)
    \/ HealthLock(t)
    \/ RecordFailureRead(t)
    \/ RecordFailureWrite(t)
    \/ RecordFailureCheck(t)
    \/ RecordSuccessHealthy(t)
    \/ RecordSuccessCount(t)
    \/ IsHealthyRead(t)
    \/ HealthUnlock(t)

(***************************************************************************)
(* Strings                                                                 *)
(***************************************************************************)
\* strings.HasSuffix(s, suffix)
HasSuffix(s, suffix) ==
  /\ Len(suffix) <= Len(s)
  /\ SubSeq(s, Len(s) - Len(suffix) + 1, Len(s)) = suffix

\* Index of the first ch in s (1-based), 0 when there is none.
RECURSIVE IndexFrom(_, _, _)
IndexFrom(s, ch, i) ==
  IF i > Len(s) THEN 0
  ELSE IF s[i] = ch THEN i ELSE IndexFrom(s, ch, i + 1)

IndexOf(s, ch) == IndexFrom(s, ch, 1)

\* strings.SplitN(s, ch, 2): one element when ch does not occur in s.
SplitN2(s, ch) ==
  LET i == IndexOf(s, ch)
  IN IF i = 0 THEN <<s>>
     ELSE <<SubSeq(s, 1, i - 1), SubSeq(s, i + 1, Len(s))>>

RECURSIVE TrimLeft(_, _)
TrimLeft(s, ch) ==
  IF s # <<>> /\ Head(s) = ch THEN TrimLeft(Tail(s), ch) ELSE s

RECURSIVE TrimRight(_, _)
TrimRight(s, ch) ==
  IF s # <<>> /\ s[Len(s)] = ch THEN TrimRight(SubSeq(s, 1, Len(s) - 1), ch) ELSE s

\* strings.Trim(s, ch) for a one-character cutset
Trim(s, ch) == TrimRight(TrimLeft(s, ch), ch)

\* The 0-based indices at which ch occurs in s, ascending.
RECURSIVE IndicesFrom(_, _, _)
IndicesFrom(s, ch, i) ==
  IF i > Len(s) THEN <<>>
  ELSE (IF s[i] = ch THEN <<i - 1>> ELSE <<>>) \o IndicesFrom(s, ch, i + 1)

IndicesOf(s, ch) == IndicesFrom(s, ch, 1)

\* s[a:b] of Go, a and b 0-based
Slice(s, a, b) == SubSeq(s, a + 1, b)

\* Join the strings of a sequence with ':' between them.
RECURSIVE JoinColon(_)
JoinColon(parts) ==
  IF parts = <<>> THEN <<>>
  ELSE IF Len(parts) = 1 THEN parts[1]
  ELSE parts[1] \o <<":">> \o JoinColon(Tail(parts))

(***************************************************************************)
(* Header parsing (auth handlers file)                                     *)
(***************************************************************************)
SchemeDigest == <<"D", "i", "g", "e", "s", "t">>
SchemeBasic == <<"B", "a", "s", "i", "c">>
MethodGet == <<"G", "E", "T">>
MethodConnect == <<"C", "O", "N", "N", "E", "C", "T">>

KeyUsername == <<"u", "s", "e", "r", "n", "a", "m", "e">>
KeyRealm == <<"r", "e", "a", "l", "m">>
KeyNonce == <<"n", "o", "n", "c", "e">>
KeyUri == <<"u", "r", "i">>
KeyResponse == <<"r", "e", "s", "p", "o", "n", "s", "e">>
KeyQop == <<"q", "o", "p">>
KeyNc == <<"n", "c">>
KeyCnonce == <<"c", "n", "o", "n", "c", "e">>

EmptyDigestData ==
  [user |-> <<>>, realm |-> <<>>, nonce |-> <<>>, uri |-> <<>>, response |-> <<>>,
   qop |-> <<>>, nc |-> <<>>, cnonce |-> <<>>, method |-> <<>>]

\* What a parser call ends in: a nil pointer, a pointer to data, or a
\* run-time panic that unwinds the handler.
ParsedNil(empty) == [kind |-> "nil", data |-> empty]
ParsedData(d) == [kind |-> "data", data |-> d]
ParsedPanic(empty) == [kind |-> "panic", data |-> empty]
NoParse == [kind |-> "none", data |-> <<>>]

\* quotedStringsRegexp.FindAllStringSubmatchIndex(h, -1) for "(.*?)" : the
\* quotes pair up left to right; each match is <<start, end, groupStart,
\* groupEnd>>, 0-based with exclusive ends.
QuoteMatches(h) ==
  LET q == IndicesOf(h, "\"")
  IN [k \in 1..(Len(q) \div 2) |->
        <<q[2 * k - 1], q[2 * k] + 1, q[2 * k - 1] + 1, q[2 * k]>>]

SeparateCommasAll(h) == IndicesOf(h, ",")
\* The commas that are not inside a quoted span (auth handlers:339-351).
SeparateCommas(h) ==
  LET quotes == QuoteMatches(h)
      commas == IndicesOf(h, ",")
      quotedComma(c) == \E k \in 1..Len(quotes) :
                           Len(quotes[k]) = 4 /\ c >= quotes[k][3] /\ c <= quotes[k][4]
  IN SelectSeq(commas, LAMBDA c : ~quotedComma(c))

\* The tokens between the separating commas, trimmed of spaces
\* (auth handlers:353-362).
RECURSIVE TokensFrom(_, _, _, _)
TokensFrom(h, seps, i, start) ==
  IF i > Len(seps) THEN << Trim(Slice(h, start, Len(h)), " ") >>
  ELSE << Trim(Slice(h, start, seps[i]), " ") >> \o TokensFrom(h, seps, i + 1, seps[i] + 1)

Tokens(h) == TokensFrom(h, SeparateCommas(h), 1, 0)

\* kv := strings.SplitN(token, "=", 2); m[kv[0]] = strings.Trim(kv[1], "\"")
\* kv[1] is out of range when the token has no '='.
TokenHasValue(token) == Len(SplitN2(token, "=")) = 2

RECURSIVE FillMap(_, _, _)
FillMap(m, tokens, i) ==
  IF i > Len(tokens) THEN m
  ELSE LET kv == SplitN2(tokens[i], "=")
           v == Trim(kv[2], "\"")
       IN FillMap([k \in (DOMAIN m) \cup {kv[1]} |-> IF k = kv[1] THEN v ELSE m[k]],
                  tokens, i + 1)

MapGet(m, key) == IF key \in DOMAIN m THEN m[key] ELSE <<>>

\* getDigestAuthData(req): header is req.Header.Get("Proxy-Authorization"),
\* "" when the header is absent.
getDigestAuthData(header, method) ==
  LET authHeader == SplitN2(header, " ")
  IN IF Len(authHeader) # 2 \/ authHeader[1] # SchemeDigest
       THEN ParsedNil(EmptyDigestData)
       ELSE LET tokens == Tokens(authHeader[2])
            IN IF \E i \in 1..Len(tokens) : ~TokenHasValue(tokens[i])
                 THEN ParsedPanic(EmptyDigestData)
                 ELSE LET m == FillMap(<<>>, tokens, 1)
                      IN ParsedData([user     |-> MapGet(m, KeyUsername),
                                     realm    |-> MapGet(m, KeyRealm),
                                     nonce    |-> MapGet(m, KeyNonce),
                                     uri      |-> MapGet(m, KeyUri),
                                     response |-> MapGet(m, KeyResponse),
                                     qop      |-> MapGet(m, KeyQop),
                                     nc       |-> MapGet(m, KeyNc),
                                     cnonce   |-> MapGet(m, KeyCnonce),
                                     method   |-> method])

\* base64.StdEncoding: the alphabet, padded with '='.
Base64Alphabet ==
  <<"A", "B", "C", "D", "E", "F", "G", "H", "I", "J", "K", "L", "M", "N", "O", "P", "Q", "R", "S", "T", "U", "V", "W", "X", "Y", "Z", "a", "b", "c", "d", "e", "f", "g", "h", "i", "j", "k", "l", "m", "n", "o", "p", "q", "r", "s", "t", "u", "v", "w", "x", "y", "z", "0", "1", "2", "3", "4", "5", "6", "7", "8", "9", "+", "/">>

Base64Value(ch) == IndexOf(Base64Alphabet, ch) - 1

\* One group of four characters: <<ok, bytes>>.
Base64Quad(q, last) ==
  LET pad == IF q[4] = "=" THEN (IF q[3] = "=" THEN 2 ELSE 1) ELSE 0
      v(i) == Base64Value(q[i])
      okChars == \A i \in 1..(4 - pad) : v(i) >= 0
      b1 == v(1) * 4 + (v(2) \div 16)
      b2 == (v(2) % 16) * 16 + (v(3) \div 4)
      b3 == (v(3) % 4) * 64 + v(4)
  IN IF ~okChars \/ (pad > 0 /\ ~last) THEN <<FALSE, <<>>>>
     ELSE IF pad = 2 THEN <<TRUE, <<b1>>>>
     ELSE IF pad = 1 THEN <<TRUE, <<b1, b2>>>>
     ELSE <<TRUE, <<b1, b2, b3>>>>

RECURSIVE Base64Quads(_, _)
Base64Quads(s, i) ==
  IF i > Len(s) THEN <<TRUE, <<>>>>
  ELSE LET q == Base64Quad(SubSeq(s, i, i + 3), i + 3 = Len(s))
           rest == Base64Quads(s, i + 4)
       IN IF q[1] /\ rest[1] THEN <<TRUE, q[2] \o rest[2]>> ELSE <<FALSE, <<>>>>

\* base64.StdEncoding.DecodeString(s): <<ok, bytes>>; an input whose length
\* is not a multiple of four is corrupt.
Base64Decode(s) ==
  IF Len(s) % 4 # 0 THEN <<FALSE, <<>>>> ELSE Base64Quads(s, 1)

Colon == 58

EmptyBasicData == [user |-> <<>>, password |-> <<>>]

getBasicAuthDataNamedUser(header) ==
  LET authHeader == SplitN2(header, " ")
  IN IF Len(authHeader) # 2 \/ authHeader[1] # SchemeBasic
       THEN ParsedNil(EmptyBasicData)
       ELSE LET raw == Base64Decode(authHeader[2])
            IN IF ~raw[1] THEN ParsedNil(EmptyBasicData)
               ELSE LET userPassword == SplitN2(raw[2], Colon)
                    IN IF Len(userPassword) # 2 \/ userPassword[1] = <<>>
                         THEN ParsedNil(EmptyBasicData)
                         ELSE ParsedData([user |-> userPassword[1],
                                          password |-> userPassword[2]])

\* getBasicAuthData(req); user and password are byte strings.
getBasicAuthData(header) ==
  LET authHeader == SplitN2(header, " ")
  IN IF Len(authHeader) # 2 \/ authHeader[1] # SchemeBasic
       THEN ParsedNil(EmptyBasicData)
       ELSE LET raw == Base64Decode(authHeader[2])
            IN IF ~raw[1] THEN ParsedNil(EmptyBasicData)
               ELSE LET userPassword == SplitN2(raw[2], Colon)
                    IN IF Len(userPassword) # 2 THEN ParsedNil(EmptyBasicData)
                       ELSE ParsedData([user |-> userPassword[1],
                                        password |-> userPassword[2]])

(***************************************************************************)
(* Forward-proxy resolver and CONNECT dial path                            *)
(***************************************************************************)
Dot == <<".">>

\* Destination host names and rule keys used to exercise the resolver.
Hosts == { <<"w", ".", "e", ".", "c">>, <<"o", ".", "g">>, <<"x", "c">> }
RuleKeys == { Dot, <<"e", ".", "c">>, <<".", "c">>, <<"x", ".", "c">>, <<"c">> }
Aliases == {"A", "B", "Z"}

\* Proxy URL texts.  "%zz" is rejected by url.Parse (invalid URL escape);
\* the empty text parses to the empty URL.
MalformedURLs == {"%zz"}
ProxyTables ==
  { [A |-> "http://p1", B |-> "http://p2"],
    [A |-> "http://p1", B |-> "%zz"],
    [A |-> "http://p1", B |-> ""] }
ForwardURLs == {"", "http://p3", "%zz"}

NilURL == {}

\* url.Parse with the error dropped: a nil *url.URL when the text is malformed.
UrlParse(text) == IF text \in MalformedURLs THEN NilURL ELSE {text}

\* len(s) of a Go string held as a TLA+ string (only "" matters here).
IsEmptyText(text) == text = ""

Configurations ==
  { [Rules |-> r, Proxies |-> p, ForwardProxyURL |-> f] :
      r \in UNION { [K -> Aliases] : K \in { S \in SUBSET RuleKeys : Cardinality(S) <= MaxRules } },
      p \in ProxyTables,
      f \in ForwardURLs }

\* The key slice after `for k := range conf.Rules` and sort.Slice by
\* descending length: any arrangement of the keys with non-increasing
\* lengths (map order is unspecified and sort.Slice is not stable).
KeyOrders(rules) ==
  LET K == DOMAIN rules
      n == Cardinality(K)
  IN { o \in [1..n -> K] :
         /\ \A i, j \in 1..n : i # j => o[i] # o[j]
         /\ \A i, j \in 1..n : i < j => Len(o[i]) >= Len(o[j]) }

\* One iteration of the scan loop (src/proxyhealth.go:470-483).
ScanStepAnyKey(st, domain, host, c) ==
  IF c.Rules[domain] \notin DOMAIN c.Proxies
    THEN st
    ELSE LET parsedURL == UrlParse(c.Proxies[c.Rules[domain]])
         IN IF (domain = Dot \/ HasSuffix(host, domain))
                 /\ Len(domain) >= st.mostSpecificLength
              THEN [st EXCEPT !.mostSpecificMatch = parsedURL,
                              !.mostSpecificLength = Len(domain)]
              ELSE st
ScanStep(st, domain, host, c) ==
  IF c.Rules[domain] \notin DOMAIN c.Proxies
    THEN st
    ELSE LET parsedURL == UrlParse(c.Proxies[c.Rules[domain]])
         IN IF domain = Dot
              THEN [st EXCEPT !.genericProxy = parsedURL]
              ELSE IF HasSuffix(host, domain) /\ Len(domain) > st.mostSpecificLength
                     THEN [st EXCEPT !.mostSpecificMatch = parsedURL,
                                     !.mostSpecificLength = Len(domain)]
                     ELSE st

RECURSIVE ScanKeys(_, _, _, _, _)
ScanKeys(st, order, i, host, c) ==
  IF i > Len(order) THEN st
  ELSE ScanKeys(ScanStep(st, order[i], host, c), order, i + 1, host, c)

\* The tail of findMatchingProxy (src/proxyhealth.go:485-493).
FallbackGenericFirst(st, c) ==
  IF st.mostSpecificMatch # NilURL THEN st.mostSpecificMatch
  ELSE IF st.genericProxy # NilURL THEN st.genericProxy
  ELSE IF ~IsEmptyText(c.ForwardProxyURL) THEN UrlParse(c.ForwardProxyURL)
  ELSE NilURL
Fallback(st, c) ==
  IF st.mostSpecificMatch # NilURL THEN st.mostSpecificMatch
  ELSE IF ~IsEmptyText(c.ForwardProxyURL) THEN UrlParse(c.ForwardProxyURL)
  ELSE st.genericProxy

\* findMatchingProxy(host, conf) for one outcome of the sort.
findMatchingProxy(host, c, order) ==
  Fallback(ScanKeys([genericProxy |-> NilURL, mostSpecificMatch |-> NilURL,
                     mostSpecificLength |-> -1], order, 1, host, c), c)

InitRoute ==
  /\ conf \in Configurations
  /\ rpc = "idle"
  /\ rreq = [host |-> <<>>, connect |-> FALSE]
  /\ keyOrder = <<>>
  /\ route = NilURL
  /\ dialVia = None
  /\ dialOk = {}

\* The routing path parked: what the other specifications start from.
RouteParked ==
  /\ conf = [Rules |-> <<>>, Proxies |-> [A |-> "http://p1", B |-> "http://p2"],
             ForwardProxyURL |-> ""]
  /\ rpc = "idle"
  /\ rreq = [host |-> <<>>, connect |-> FALSE]
  /\ keyOrder = <<>>
  /\ route = NilURL
  /\ dialVia = None
  /\ dialOk = {}

\* setForwardProxy installs the Proxy function and ConnectDialWithReq only
\* when a forward proxy or a rule is configured.
ForwardProxySet(c) == ~(IsEmptyText(c.ForwardProxyURL) /\ DOMAIN c.Rules = {})

\* A request reaches the outbound path: a plain request goes to
\* proxy.Tr.Proxy, a CONNECT to proxy.ConnectDialWithReq.
RequestOutbound(host, isConnect) ==
  /\ rpc = "idle"
  /\ rreq' = [host |-> host, connect |-> isConnect]
  /\ rpc' = IF ForwardProxySet(conf) THEN "sort" ELSE "direct"
  /\ UNCHANGED <<conf, keyOrder, route, dialVia, dialOk>>

\* findMatchingProxy: collect the keys and sort them.
SortKeys(order) ==
  /\ rpc = "sort"
  /\ order \in KeyOrders(conf.Rules)
  /\ keyOrder' = order
  /\ rpc' = "scan"
  /\ UNCHANGED <<conf, rreq, route, dialVia, dialOk>>

\* findMatchingProxy: scan the keys and fall back; then
\* findMatchingForwardProxyURL returns the URL to the transport, and
\* findMatchingProxyString calls String() on it, which dereferences a nil URL.
Resolve ==
  /\ rpc = "scan"
  /\ LET u == findMatchingProxy(rreq.host, conf, keyOrder)
     IN /\ route' = u
        /\ rpc' = IF u = NilURL
                    THEN (IF rreq.connect THEN "panic" ELSE "direct")
                    ELSE (IF rreq.connect /\ (\E t \in u : IsEmptyText(t))
                            THEN "direct" ELSE "upstream")
  /\ UNCHANGED <<conf, rreq, keyOrder, dialVia, dialOk>>

\* The connection is made straight to the destination (net.Dial or the
\* transport's dialer); ok is whether the dial succeeded.
DialDirect(ok) ==
  /\ rpc = "direct"
  /\ dialVia' = "direct"
  /\ dialOk' = {ok}
  /\ rpc' = "done"
  /\ UNCHANGED <<conf, rreq, keyOrder, route>>

\* The connection is made through the upstream proxy: connectDialWrapper's
\* cp(network, addr) for a CONNECT, the transport's proxy dial otherwise.
\* Neither path calls the health tracker.
DialUpstream(ok) ==
  /\ rpc = "upstream"
  /\ dialVia' = "upstream"
  /\ dialOk' = {ok}
  /\ rpc' = "done"
  /\ UNCHANGED <<conf, rreq, keyOrder, route>>

NextRoute ==
  \/ \E h \in Hosts, k \in BOOLEAN : RequestOutbound(h, k)
  \/ \E o \in KeyOrders(conf.Rules) : SortKeys(o)
  \/ Resolve
  \/ \E ok \in BOOLEAN : DialDirect(ok)
  \/ \E ok \in BOOLEAN : DialUpstream(ok)


(***************************************************************************)
(* Startup sequence and outbound dialers                                   *)
(***************************************************************************)
\* conf.BindIP values: unset, an IPv4 address, an IPv6 address, not an IP.
BindIPs == {"", "10.0.0.1", "::1", "bogus"}
IPv4Texts == {"10.0.0.1"}
IPv6Texts == {"::1"}

\* const tcpKeepAliveInterval = 1 * time.Minute, in minutes.
tcpKeepAliveInterval == 1

\* checkBindAddressOK: whether a local address is to be used, and which.
checkBindAddressOK(ip) ==
  IF ip # "" /\ ip \in IPv4Texts \cup IPv6Texts
    THEN [addressOk |-> TRUE, laddr |-> {ip}]
    ELSE [addressOk |-> FALSE, laddr |-> {}]

NoConn == [kind |-> "none", dialer |-> "none", local |-> {}, keepAlive |-> 0,
           timed |-> FALSE]

\* The connection makeCustomDialContext(localAddr) returns: bound to
\* localAddr, keep-alive period set, wrapped in a TimedConn.
CustomConn(kind, localAddr) ==
  [kind |-> kind, dialer |-> "custom", local |-> localAddr,
   keepAlive |-> tcpKeepAliveInterval, timed |-> TRUE]

\* The connection of net.Dial or of a transport without DialContext.
DefaultConn(kind) ==
  [kind |-> kind, dialer |-> "default", local |-> {}, keepAlive |-> 0, timed |-> FALSE]

\* A connection made by transport dialer dc (proxy.Tr.DialContext).
TransportConn(kind, dc) ==
  IF dc = {} THEN DefaultConn(kind) ELSE CustomConn(kind, dc)

InitDial ==
  /\ bindIP \in BindIPs
  /\ spc = "createProxy"
  /\ trDialContext = {}
  /\ trProxy = "environment"
  /\ connectDialWithReq = FALSE
  /\ dconn = NoConn

\* The startup path parked: what the other specifications start from.
DialParked ==
  /\ bindIP = ""
  /\ spc = "serving"
  /\ trDialContext = {}
  /\ trProxy = "environment"
  /\ connectDialWithReq = FALSE
  /\ dconn = NoConn

\* createProxy: goproxy.NewProxyHttpServer(), then the custom dialer is
\* installed on proxy.Tr when checkBindAddressOK says so.
createProxy ==
  /\ spc = "createProxy"
  /\ LET b == checkBindAddressOK(bindIP)
     IN trDialContext' = IF b.addressOk THEN b.laddr ELSE {}
  /\ trProxy' = "environment"
  /\ connectDialWithReq' = FALSE
  /\ spc' = "setForwardProxy"
  /\ UNCHANGED <<bindIP, dconn, conf, rpc, rreq, keyOrder, route, dialVia, dialOk>>

\* setForwardProxy: nothing without forwardProxyURL and rules; otherwise
\* proxy.Tr is replaced by a new http.Transport that has only Proxy set,
\* and proxy.ConnectDialWithReq is installed.
setForwardProxy ==
  /\ spc = "setForwardProxy"
  /\ IF ForwardProxySet(conf)
       THEN /\ trDialContext' = {}
            /\ trProxy' = "rules"
            /\ connectDialWithReq' = TRUE
       ELSE UNCHANGED <<trDialContext, trProxy, connectDialWithReq>>
  /\ spc' = "handlers"
  /\ UNCHANGED <<bindIP, dconn, conf, rpc, rreq, keyOrder, route, dialVia, dialOk>>

\* The rest of main (594-611): handlers, and TLSClientConfig set on the
\* current proxy.Tr; the dialer fields are not touched.
setHandlers ==
  /\ spc = "handlers"
  /\ spc' = "serving"
  /\ UNCHANGED <<bindIP, trDialContext, trProxy, connectDialWithReq, dconn,
                 conf, rpc, rreq, keyOrder, route, dialVia, dialOk>>

\* A plain HTTP request is sent by proxy.Tr: through the proxy that
\* Tr.Proxy returns, or straight to the destination with the transport's
\* dialer when it returns none.
ServePlain(host, order) ==
  /\ spc = "serving"
  /\ LET u == IF trProxy = "rules" THEN findMatchingProxy(host, conf, order) ELSE NilURL
     IN dconn' = TransportConn(IF u = NilURL THEN "direct" ELSE "upstream", trDialContext)
  /\ UNCHANGED <<bindIP, spc, trDialContext, trProxy, connectDialWithReq,
                 conf, rpc, rreq, keyOrder, route, dialVia, dialOk>>

\* A CONNECT request: the proxy's own dial (proxy.Tr.DialContext when set,
\* net.Dial otherwise) when ConnectDialWithReq is not installed; otherwise
\* ConnectDialWithReq (550-561).
ServeConnect(host, order) ==
  /\ spc = "serving"
  /\ dconn' =
       IF ~connectDialWithReq THEN TransportConn("direct", trDialContext)
       ELSE LET u == findMatchingProxy(host, conf, order)
            IN IF u = NilURL THEN [NoConn EXCEPT !.kind = "panic"]
               ELSE IF \E t \in u : IsEmptyText(t) THEN DefaultConn("direct")
               ELSE DefaultConn("upstream")
  /\ UNCHANGED <<bindIP, spc, trDialContext, trProxy, connectDialWithReq,
                 conf, rpc, rreq, keyOrder, route, dialVia, dialOk>>

NextDial ==
  \/ createProxy
  \/ setForwardProxy
  \/ setHandlers
  \/ \E h \in Hosts : \E o \in KeyOrders(conf.Rules) : ServePlain(h, o)
  \/ \E h \in Hosts : \E o \in KeyOrders(conf.Rules) : ServeConnect(h, o)

(***************************************************************************)
(* CONNECT through an upstream proxy with embedded credentials             *)
(***************************************************************************)
\* Byte value of a character.
Ord(ch) ==
  CASE ch = "a" -> 97 [] ch = "p" -> 112 [] ch = "q" -> 113 [] ch = "+" -> 43
    [] ch = " " -> 32 [] ch = "@" -> 64 [] ch = ":" -> 58 [] ch = "%" -> 37

Bytes(s) == [i \in 1..Len(s) |-> Ord(s[i])]

\* base64.StdEncoding.EncodeToString
RECURSIVE Base64Encode(_)
Base64Encode(b) ==
  LET c(i) == <<Base64Alphabet[i + 1]>>
  IN IF Len(b) = 0 THEN <<>>
     ELSE IF Len(b) = 1
       THEN c(b[1] \div 4) \o c((b[1] % 4) * 16) \o <<"=", "=">>
     ELSE IF Len(b) = 2
       THEN c(b[1] \div 4) \o c((b[1] % 4) * 16 + (b[2] \div 16))
              \o c((b[2] % 16) * 4) \o <<"=">>
     ELSE c(b[1] \div 4) \o c((b[1] % 4) * 16 + (b[2] \div 16))
            \o c((b[2] % 16) * 4 + (b[3] \div 64)) \o c(b[3] % 64)
            \o Base64Encode(SubSeq(b, 4, Len(b)))

\* Percent-encodings of the characters that occur.
PercentCode(ch) ==
  CASE ch = "@" -> <<"%", "4", "0">> [] ch = ":" -> <<"%", "3", "A">>
    [] ch = " " -> <<"%", "2", "0">> [] ch = "%" -> <<"%", "2", "5">>
    [] ch = "+" -> <<"%", "2", "B">>
PercentCoded == {"@", ":", " ", "%", "+"}

\* net/url unescape: %XX to its byte; '+' to a blank only in
\* encodeQueryComponent mode.
RECURSIVE Unescape(_, _)
Unescape(s, queryComponent) ==
  IF s = <<>> THEN <<>>
  ELSE IF Head(s) = "%"
    THEN <<CHOOSE ch \in PercentCoded : PercentCode(ch) = SubSeq(s, 1, 3)>>
           \o Unescape(SubSeq(s, 4, Len(s)), queryComponent)
  ELSE IF Head(s) = "+" /\ queryComponent
    THEN <<" ">> \o Unescape(Tail(s), queryComponent)
  ELSE <<Head(s)>> \o Unescape(Tail(s), queryComponent)

\* net/url shouldEscape in encodeUserPassword mode: of the characters that
\* occur, '@', ':', '%' and the blank are escaped, '+' is not.
ShouldEscapeUserPassword(ch) == ch \in {"@", ":", "%", " "}

RECURSIVE EscapeUserPassword(_)
EscapeUserPassword(s) ==
  IF s = <<>> THEN <<>>
  ELSE (IF ShouldEscapeUserPassword(Head(s)) THEN PercentCode(Head(s)) ELSE <<Head(s)>>)
         \o EscapeUserPassword(Tail(s))

\* url.QueryUnescape
QueryUnescape(s) == Unescape(s, TRUE)

NilUser == [present |-> FALSE, username |-> <<>>, password |-> <<>>, passwordSet |-> FALSE]

\* url.Parse on the userinfo part: split at the first ':' and unescape the
\* two halves; a URL without '@' has a nil User.
ParseUserinfo(u) ==
  IF u = {} THEN NilUser
  ELSE LET raw == CHOOSE t \in u : TRUE
           parts == SplitN2(raw, ":")
       IN IF Len(parts) = 1
            THEN [present |-> TRUE, username |-> Unescape(raw, FALSE),
                  password |-> <<>>, passwordSet |-> FALSE]
            ELSE [present |-> TRUE, username |-> Unescape(parts[1], FALSE),
                  password |-> Unescape(parts[2], FALSE), passwordSet |-> TRUE]

\* (*Userinfo).String(): "" for nil, else the escaped name and password.
UserinfoString(user) ==
  IF ~user.present THEN <<>>
  ELSE EscapeUserPassword(user.username)
         \o (IF user.passwordSet THEN <<":">> \o EscapeUserPassword(user.password)
             ELSE <<>>)

BasicPrefix == <<"B", "a", "s", "i", "c", " ">>

\* connectHandler (517-526) on the header values hdr.
connectHandler(user, hdr) ==
  IF Len(user.username) > 0
    THEN << BasicPrefix \o Base64Encode(Bytes(QueryUnescape(UserinfoString(user)))) >>
    ELSE <<>>

\* Userinfo texts of proxy URLs, and Proxy-Authorization values the
\* CONNECT request may carry beforehand.
UserinfoTexts ==
  { <<"a", ":", "p">>, <<":", "p">>, <<"a", ":">>, <<"p", ":", "a">>,
    <<"a", "%", "4", "0", ":", "p">>, <<"a", ":", "p", "+", "q">>,
    <<"a", ":", "p", "%", "2", "B", "q">>, <<"a", ":", "p", "%", "2", "0", "q">>,
    <<"a", "%", "3", "A", "p", ":", "q">>, <<"a", ":", "%", "2", "5">>,
    <<"+", ":", "p">>, <<"q", ":", "q">>, <<"p", ":", "p">>, <<"a", ":", "a">>,
    <<>> }
PriorHeaders ==
  { <<>>, << BasicPrefix \o <<"Y", "T", "p", "w">> >>,
    << BasicPrefix \o <<"Y", "T", "p", "w">>, <<"D", "i", "g", "e", "s", "t", " ", "x">> >> }

InitCred ==
  /\ cpc = "parse"
  /\ curl \in {{}} \cup {{t} : t \in UserinfoTexts}
  /\ cuser = NilUser
  /\ chdr \in PriorHeaders

\* This path parked: what the other specifications start from.
CredParked ==
  /\ cpc = "parse"
  /\ curl = {}
  /\ cuser = NilUser
  /\ chdr = <<>>

\* proxyURL, err := url.Parse(proxyURLString)
ParseProxyURL ==
  /\ cpc = "parse"
  /\ cuser' = ParseUserinfo(curl)
  /\ cpc' = IF Len(UserinfoString(ParseUserinfo(curl))) > 0 THEN "handler" ELSE "plain"
  /\ UNCHANGED <<curl, chdr>>

\* NewConnectDialToProxyWithHandler: the handler runs on the CONNECT
\* request before it is sent.
ConnectWithHandler ==
  /\ cpc = "handler"
  /\ chdr' = connectHandler(cuser, chdr)
  /\ cpc' = "sent"
  /\ UNCHANGED <<curl, cuser>>

\* NewConnectDialToProxy: the CONNECT request is sent as it is.
ConnectPlain ==
  /\ cpc = "plain"
  /\ cpc' = "sent"
  /\ UNCHANGED <<curl, cuser, chdr>>

NextCred ==
  \/ ParseProxyURL
  \/ ConnectWithHandler
  \/ ConnectPlain

(***************************************************************************)
(* One request in an auth handler: header parsing and the 407 response     *)
(***************************************************************************)
MaxTokens == 2

ProxyAuthorizatonHeader == "Proxy-Authorization"
AcceptHeader == "Accept"

\* var unauthorizedMsg = []byte("407 Proxy Authentication Required")
unauthorizedMsg ==
  <<"4", "0", "7", " ", "P", "r", "o", "x", "y", " ",
    "A", "u", "t", "h", "e", "n", "t", "i", "c", "a", "t", "i", "o", "n", " ",
    "R", "e", "q", "u", "i", "r", "e", "d">>

\* http.Header: Get is the first value or "", Del removes the key.
HeaderGet(h, name) ==
  IF name \in DOMAIN h /\ Len(h[name]) > 0 THEN h[name][1] ELSE <<>>
HeaderDelNothing(h, name) == h
HeaderDel(h, name) == [n \in (DOMAIN h) \ {name} |-> h[n]]

\* basicUnauthorized(req, realm)
basicUnauthorizedHeaderLength(realm) ==
  LET header == <<"B", "a", "s", "i", "c", " ", "r", "e", "a", "l", "m", "=", "\"">>
                  \o realm \o <<"\"">>
  IN [StatusCode |-> 407, Header |-> header, Body |-> unauthorizedMsg,
      ContentLength |-> Len(header)]
basicUnauthorized(realm) ==
  LET header == <<"B", "a", "s", "i", "c", " ", "r", "e", "a", "l", "m", "=", "\"">>
                  \o realm \o <<"\"">>
  IN [StatusCode |-> 407, Header |-> header, Body |-> unauthorizedMsg,
      ContentLength |-> Len(unauthorizedMsg)]

\* digestUnauthorized(req, realm, authFunc), nonce being authResult.data
digestUnauthorized(realm, nonce) ==
  LET header == <<"D", "i", "g", "e", "s", "t", " ", "r", "e", "a", "l", "m", "=", "\"">>
                  \o realm
                  \o <<"\"", ",", " ", "q", "o", "p", "=", "a", "u", "t", "h", ",", " ",
                       "n", "o", "n", "c", "e", "=", "\"">>
                  \o nonce \o <<"\"">>
  IN [StatusCode |-> 407, Header |-> header, Body |-> unauthorizedMsg,
      ContentLength |-> Len(unauthorizedMsg)]

NoHttpResponse == [StatusCode |-> 0, Header |-> <<>>, Body |-> <<>>, ContentLength |-> 0]

\* ---- what clients send ----
\* Digest parameters: key, value, whether the value is quoted; a bare
\* token has no '='.
Pair(k, v, q) == [key |-> k, value |-> v, quoted |-> q, bare |-> FALSE]
Bare(t) == [key |-> t, value |-> <<>>, quoted |-> FALSE, bare |-> TRUE]

DigestTokens ==
  { Pair(KeyUsername, <<"b">>, TRUE),
    Pair(KeyRealm, <<"r", ",", "x">>, TRUE),
    Pair(KeyUri, <<"/", "a", ",", "b">>, TRUE),
    Pair(KeyQop, <<"a", "u", "t", "h">>, FALSE),
    Pair(KeyNc, <<"1">>, FALSE),
    Pair(<<"c", "n", "o", "n", "d", "e">>, <<"c", ",", "1">>, TRUE),
    Pair(KeyResponse, <<"a", "=", "b">>, TRUE),
    Pair(KeyNonce, <<>>, TRUE),
    Bare(<<"x">>),
    Bare(<<>>) }

DigestInputs ==
  UNION { [1..n -> DigestTokens] : n \in 1..MaxTokens }

RenderToken(t) ==
  IF t.bare THEN t.key
  ELSE t.key \o <<"=">> \o (IF t.quoted THEN <<"\"">> \o t.value \o <<"\"">> ELSE t.value)

\* The parameter list: tokens joined by a comma and a blank.
RECURSIVE RenderList(_, _)
RenderList(toks, i) ==
  IF i > Len(toks) THEN <<>>
  ELSE (IF i > 1 THEN <<",", " ">> ELSE <<>>) \o RenderToken(toks[i]) \o RenderList(toks, i + 1)

\* Basic credentials: the text that is base64-encoded, or a payload that
\* is sent as it is; absent is a request without the header.
Cred(scheme, text) ==
  [absent |-> FALSE, scheme |-> scheme, blank |-> TRUE, encoded |-> TRUE,
   text |-> text, payload |-> <<>>]
RawPayload(scheme, blank, payload) ==
  [absent |-> FALSE, scheme |-> scheme, blank |-> blank, encoded |-> FALSE,
   text |-> <<>>, payload |-> payload]
NoHeader ==
  [absent |-> TRUE, scheme |-> <<>>, blank |-> FALSE, encoded |-> FALSE,
   text |-> <<>>, payload |-> <<>>]

BasicUsers == { <<>>, <<"a">>, <<"a", "p">> }
BasicPasswords == { <<>>, <<"p">>, <<"p", ":", "a">>, <<":">>, <<"a", ":">> }
ColonlessTexts == { <<>>, <<"a">>, <<"a", "p">> }
CorruptPayloads == { <<"Y">>, <<"Y", "Q">>, <<"Y", "T", "=", "w">>, <<"Y", " ", "p", "w">>,
                     <<" ", "Y", "T", "p", "w">> }

BasicInputs ==
  { Cred(SchemeBasic, u \o <<":">> \o pw) : u \in BasicUsers, pw \in BasicPasswords }
  \cup { Cred(SchemeBasic, t) : t \in ColonlessTexts }
  \cup { RawPayload(SchemeBasic, TRUE, c) : c \in CorruptPayloads }
  \cup { Cred(<<"b", "a", "s", "i", "c">>, <<"a", ":", "p">>),
         Cred(SchemeDigest, <<"a", ":", "p">>),
         RawPayload(SchemeBasic, FALSE, <<>>),
         NoHeader }

\* The Proxy-Authorization value of input g.
RenderHeader(type, g) ==
  IF type = "digest" THEN SchemeDigest \o <<" ">> \o RenderList(g, 1)
  ELSE g.scheme \o (IF g.blank THEN <<" ">> ELSE <<>>)
         \o (IF g.encoded THEN Base64Encode(Bytes(g.text)) ELSE g.payload)

HeaderAbsent(type, g) == type = "basic" /\ g.absent

Realms == { <<>>, <<"r">>, <<"r", "e", "a", "l", "m", "s">> }
ChallengeNonces == { <<"1">>, <<"1", "2", "3">> }

InitParse ==
  /\ ptype \in {"basic", "digest"}
  /\ prealm \in Realms
  /\ pgen \in (IF ptype = "digest" THEN DigestInputs ELSE BasicInputs)
  /\ pmethod \in {MethodGet, MethodConnect}
  /\ \E other \in BOOLEAN, twice \in BOOLEAN :
       phdrs = [n \in (IF HeaderAbsent(ptype, pgen) THEN {} ELSE {ProxyAuthorizatonHeader})
                       \cup (IF other THEN {AcceptHeader} ELSE {})
                  |-> IF n = ProxyAuthorizatonHeader
                        THEN << RenderHeader(ptype, pgen) >>
                               \o (IF twice THEN << <<"x">> >> ELSE <<>>)
                        ELSE << <<"x">> >>]
  /\ pdata = NoParse
  /\ presp = NoHttpResponse
  /\ ppc = "start"

\* This path parked: what the other specifications start from.
ParseParked ==
  /\ ptype = "basic"
  /\ prealm = <<>>
  /\ pgen = NoHeader
  /\ pmethod = MethodGet
  /\ phdrs = <<>>
  /\ pdata = NoParse
  /\ presp = NoHttpResponse
  /\ ppc = "start"

\* getBasicAuthData(req) / getDigestAuthData(req): Get, Del, parse.  A nil
\* result goes to the 407, data goes to authFunc; a panic unwinds.
ParseRequest ==
  /\ ppc = "start"
  /\ LET header == HeaderGet(phdrs, ProxyAuthorizatonHeader)
         d == IF ptype = "digest" THEN getDigestAuthData(header, pmethod)
                                  ELSE getBasicAuthData(header)
     IN /\ pdata' = d
        /\ ppc' = CASE d.kind = "panic" -> "panic"
                    [] d.kind = "data" -> "validate"
                    [] OTHER -> "unauthorized"
  /\ phdrs' = HeaderDel(phdrs, ProxyAuthorizatonHeader)
  /\ UNCHANGED <<ptype, prealm, pgen, pmethod, presp>>

\* authFunc answers the validation with ok.
Validated(ok) ==
  /\ ppc = "validate"
  /\ ppc' = IF ok THEN "passed" ELSE "unauthorized"
  /\ UNCHANGED <<ptype, prealm, pgen, pmethod, phdrs, pdata, presp>>

\* basicUnauthorized / digestUnauthorized builds the 407; nonce is what
\* authFunc(nil, getNonce) returned.
Unauthorized(nonce) ==
  /\ ppc = "unauthorized"
  /\ presp' = IF ptype = "digest" THEN digestUnauthorized(prealm, nonce)
                                  ELSE basicUnauthorized(prealm)
  /\ ppc' = "rejected"
  /\ UNCHANGED <<ptype, prealm, pgen, pmethod, phdrs, pdata>>

NextParse ==
  \/ ParseRequest
  \/ \E ok \in BOOLEAN : Validated(ok)
  \/ \E n \in ChallengeNonces : Unauthorized(n)

(***************************************************************************)
(* Authentication actors and handlers                                      *)
(***************************************************************************)
Handlers == 1..NumHandlers
Maint == 0

\* Digest auth. operation type and resp status (src/proxyhealth.go:58-71)
validateUser == 0
getNonce == 1
maintPing == 2
authOk == 0
authFailed == 1
nonceOk == 2
maintOk == 3

\* In clock ticks of 30 minutes: how long the registry keeps a nonce, and
\* maintPinger's sleep.
NonceExpiry == 1
MaintInterval == 1

\* The credential files: user "a" with password "p" (bytes 97, 112) for
\* Basic; user "a" with HA1 = hash(a:r:p) for Digest.
Hash(x) == <<"#">> \o x
BasicStore == [u \in {<<97>>} |-> <<112>>]
DigestRealm == <<"r">>
DigestStore == [u \in {<<"a">>} |-> Hash(JoinColon(<< <<"a">>, DigestRealm, <<"p">> >>))]

\* basicAuth.validate(data)
BasicValidate(data) ==
  data.user \in DOMAIN BasicStore /\ BasicStore[data.user] = data.password

\* The response the digest algorithm expects for data.
DigestExpected(data) ==
  Hash(JoinColon(<< DigestStore[data.user], data.nonce, data.nc, data.cnonce, data.qop,
                    Hash(JoinColon(<<data.method, data.uri>>)) >>))

RegisteredNonces(reg) == { e.nonce : e \in reg }

\* DigestAuth.validate(data): the nonce must be in the registry and the
\* response must be the expected one for a known user.
DigestValidate(data, reg) ==
  /\ data.user \in DOMAIN DigestStore
  /\ data.nonce \in RegisteredNonces(reg)
  /\ data.response = DigestExpected(data)

\* DigestAuth.newNonce(): nonce number k as text.
NonceDigits == <<"1", "2", "3", "4", "5", "6", "7", "8", "9">>
NonceText(k) == <<NonceDigits[k]>>
BogusNonce == <<"0">>

\* DigestAuth.expireNonces(): the entries still inside the expiry window.
Unexpired(reg, t) == { e \in reg : t - e.at < NonceExpiry }

\* Proxy-Authorization values a client may send.
QuoteChar == "\""
DigestHeader(user, nonce, response) ==
  SchemeDigest \o <<" ">> \o KeyUsername \o <<"=", QuoteChar>> \o user \o <<QuoteChar, ",", " ">>
    \o KeyNonce \o <<"=", QuoteChar>> \o nonce \o <<QuoteChar, ",", " ">>
    \o KeyUri \o <<"=", QuoteChar, "/", QuoteChar, ",", " ">>
    \o KeyResponse \o <<"=", QuoteChar>> \o response \o <<QuoteChar>>

\* The response a client that knows the password computes.
ClientResponse(user, nonce, method) ==
  DigestExpected([EmptyDigestData EXCEPT !.user = user, !.nonce = nonce,
                                        !.uri = <<"/">>, !.method = method])

MethodOf(isConnect) == IF isConnect THEN MethodConnect ELSE MethodGet

DigestClientHeaders(known, isConnect) ==
  { <<>>,                       \* no Proxy-Authorization header
    <<"B", "a", "s", "i", "c", " ", "Y", "T", "p", "w">>,               \* another scheme
    <<"D", "i", "g", "e", "s", "t", " ">>,                  \* an empty parameter list
    <<"D", "i", "g", "e", "s", "t", " ", "x">>,                 \* a token without '='
    DigestHeader(<<"a">>, BogusNonce, <<"b", "a", "d">>) }
  \cup { DigestHeader(<<"a">>, n, ClientResponse(<<"a">>, n, MethodOf(isConnect))) :
           n \in known }

BasicClientHeaders ==
  { <<>>,                       \* no Proxy-Authorization header
    <<"D", "i", "g", "e", "s", "t", " ", "x">>,                 \* another scheme
    <<"B", "a", "s", "i", "c", " ", "Y", "T", "p", "w">>,               \* a:p
    <<"B", "a", "s", "i", "c", " ", "Y", "T", "p", "x">>,               \* a:q
    <<"B", "a", "s", "i", "c", " ", "Y", "X", "A", "=">>,               \* "ap", no colon
    <<"B", "a", "s", "i", "c", " ", "Y">> }                 \* not base64

NoRequest == [header |-> <<>>, connect |-> FALSE]
NoResponse == [status |-> -1, data |-> <<>>, forOp |-> -1, forFrom |-> -1]
NoOutcome == [result |-> "none", nonce |-> <<>>]

InitAuth ==
  /\ authType \in {"basic", "digest"}
  /\ apc = [h \in Handlers |-> "idle"]
  /\ areq = [h \in Handlers |-> NoRequest]
  /\ adata = [h \in Handlers |-> NoParse]
  /\ aresp = [h \in Handlers |-> NoResponse]
  /\ aout = [h \in Handlers |-> NoOutcome]
  /\ inflight = {}
  /\ nonces = {}
  /\ nextNonce = 1
  /\ now = 0
  /\ mpc = IF authType = "digest" THEN "send" ELSE "absent"
  /\ mwake = 0
  /\ pending = <<>>
  /\ inOrder = TRUE
  /\ issued = {}
  /\ nonceReqs = [h \in Handlers |-> 0]
  /\ cancelled = {}

\* The authentication layer parked: what the other specifications start from.
AuthParked ==
  /\ authType = "none"
  /\ apc = [h \in Handlers |-> "idle"]
  /\ areq = [h \in Handlers |-> NoRequest]
  /\ adata = [h \in Handlers |-> NoParse]
  /\ aresp = [h \in Handlers |-> NoResponse]
  /\ aout = [h \in Handlers |-> NoOutcome]
  /\ inflight = {}
  /\ nonces = {}
  /\ nextNonce = 1
  /\ now = 0
  /\ mpc = "absent"
  /\ mwake = 0
  /\ pending = <<>>
  /\ inOrder = TRUE
  /\ issued = {}
  /\ nonceReqs = [h \in Handlers |-> 0]
  /\ cancelled = {}

TerminalPcs == {"passed", "rejected", "panic"}

ClientHeaders(type, known, isConnect) ==
  IF type = "digest" THEN DigestClientHeaders(known, isConnect) ELSE BasicClientHeaders

\* performBasicAuth / performDigestAuth up to the first use of the actor:
\* where the handler stands after the parser has returned d.  A nil result
\* makes the Basic handlers answer 407 at once and the Digest handlers call
\* digestUnauthorized; a panic in the parser unwinds the handler.
AfterParse(type, d) ==
  CASE d.kind = "panic" -> "panic"
    [] d.kind = "data"  -> "send_validate"
    [] OTHER -> IF type = "digest" THEN "send_nonce" ELSE "rejected"

OutcomeOf(pc, nonce) ==
  CASE pc = "passed"   -> [result |-> "pass", nonce |-> <<>>]
    [] pc = "rejected" -> [result |-> "407", nonce |-> nonce]
    [] pc = "panic"    -> [result |-> "panic", nonce |-> <<>>]
    [] OTHER -> NoOutcome

\* A request reaches the auth handler (plain request or CONNECT);
\* getBasicAuthData / getDigestAuthData reads the header, deletes it from
\* the request and parses it.  Handlers are numbered in the order their
\* requests arrive.
AuthRequest(h, header, isConnect) ==
  /\ LET d == IF authType = "digest"
                THEN getDigestAuthData(header, MethodOf(isConnect))
                ELSE getBasicAuthData(header)
     IN /\ adata' = [adata EXCEPT ![h] = d]
        /\ apc' = [apc EXCEPT ![h] = AfterParse(authType, d)]
        /\ aout' = [aout EXCEPT ![h] = OutcomeOf(AfterParse(authType, d), <<>>)]
  /\ areq' = [areq EXCEPT ![h] = [header |-> <<>>, connect |-> isConnect]]
  /\ UNCHANGED <<authType, cancelled, aresp, inflight, nonces, nextNonce, now, mpc, mwake,
                 pending, inOrder, issued, nonceReqs>>

AuthArrive(h) ==
  /\ apc[h] = "idle"
  /\ \A g \in Handlers : g < h => apc[g] # "idle"
  /\ \E isConnect \in BOOLEAN :
       \E header \in ClientHeaders(authType, issued, isConnect) :
         AuthRequest(h, header, isConnect)

\* The actor goroutine is a single loop: it takes the next request from the
\* channel only after it has sent the reply to the previous one.
ActorReadyAlways(running) == TRUE
ActorReady(running) == running = {}

SendPcs == {"send_validate", "send_nonce"}
OpOfPc(pc) == IF pc = "send_validate" THEN validateUser ELSE getNonce
WaitPcStay(pc) == pc
WaitPc(pc) == IF pc = "send_validate" THEN "wait_validate" ELSE "wait_nonce"

\* channel <- request meets `for e := range channel`: a handler's request
\* is handed to the actor, which starts on its operation.
ActorReceive(h) ==
  /\ apc[h] \in SendPcs
  /\ ActorReady(inflight)
  /\ inflight' = inflight \cup
       {[from |-> h, op |-> OpOfPc(apc[h]), phase |-> "running",
         data |-> IF apc[h] = "send_validate" THEN adata[h].data ELSE <<>>,
         resp |-> NoResponse]}
  /\ pending' = Append(pending, <<h, OpOfPc(apc[h])>>)
  /\ nonceReqs' = [nonceReqs EXCEPT ![h] =
                     IF apc[h] = "send_nonce" THEN nonceReqs[h] + 1 ELSE nonceReqs[h]]
  /\ apc' = [apc EXCEPT ![h] = WaitPc(apc[h])]
  /\ UNCHANGED <<authType, cancelled, areq, adata, aresp, aout, nonces, nextNonce, now, mpc,
                 mwake, inOrder, issued>>

\* The same for the request of maintPinger.
ActorReceiveMaint ==
  /\ mpc = "send"
  /\ ActorReady(inflight)
  /\ inflight' = inflight \cup
       {[from |-> Maint, op |-> maintPing, phase |-> "running", data |-> <<>>,
         resp |-> NoResponse]}
  /\ pending' = Append(pending, <<Maint, maintPing>>)
  /\ mpc' = "wait"
  /\ UNCHANGED <<authType, cancelled, apc, areq, adata, aresp, aout, nonces, nextNonce, now,
                 mwake, inOrder, issued, nonceReqs>>

StatusOfNonce(valid) == nonceOk
\* The status the actor answers a validation with.
StatusOf(valid) == IF valid THEN authOk ELSE authFailed

\* The response the actor builds for request e (src/proxyhealth.go:129-145,
\* 106-107); forOp and forFrom remember which request it answers.
ResponseFor(e, type, reg, k) ==
  LET valid == IF type = "digest" THEN DigestValidate(e.data, reg)
                                  ELSE BasicValidate(e.data)
      status == CASE e.op = validateUser -> StatusOf(valid)
                  [] e.op = getNonce     -> nonceOk
                  [] e.op = maintPing    -> maintOk
  IN [status |-> status,
      data |-> IF e.op = getNonce THEN NonceText(k) ELSE <<>>,
      forOp |-> e.op, forFrom |-> e.from]

\* The actor finishes the operation of request e: auth.validate,
\* auth.newNonce or auth.expireNonces, and builds the response.
ActorExecute(e) ==
  /\ e \in inflight /\ e.phase = "running"
  /\ inflight' = (inflight \ {e}) \cup
       {[e EXCEPT !.phase = "done", !.resp = ResponseFor(e, authType, nonces, nextNonce)]}
  /\ nonces' = CASE e.op = getNonce -> nonces \cup {[nonce |-> NonceText(nextNonce), at |-> now]}
                 [] e.op = maintPing -> Unexpired(nonces, now)
                 [] OTHER -> nonces
  /\ nextNonce' = IF e.op = getNonce THEN nextNonce + 1 ELSE nextNonce
  /\ inOrder' = (inOrder /\ Head(pending) = <<e.from, e.op>>)
  /\ pending' = SelectSeq(pending, LAMBDA x : x # <<e.from, e.op>>)
  /\ UNCHANGED <<authType, cancelled, apc, areq, adata, aresp, aout, now, mpc, mwake, issued, nonceReqs>>

\* What the handler does with the reply to validateUser: Basic passes the
\* request or answers 407; Digest passes on authOk, calls digestUnauthorized
\* on authFailed and panics on any other status.
AfterValidate(type, status) ==
  IF type = "basic"
    THEN (IF status = authOk THEN "passed" ELSE "rejected")
    ELSE CASE status = authOk -> "passed"
           [] status = authFailed -> "send_nonce"
           [] OTHER -> "panic"

ActorReplyHandlerAgain(e) ==
  /\ e \in inflight /\ e.phase = "done" /\ e.from # Maint
  /\ apc[e.from] \in {"wait_validate", "wait_nonce"}
  /\ LET h == e.from
         next == IF apc[h] = "wait_validate" THEN AfterValidate(authType, e.resp.status)
                                             ELSE "rejected"
     IN /\ aresp' = [aresp EXCEPT ![h] = e.resp]
        /\ apc' = [apc EXCEPT ![h] = next]
        /\ aout' = [aout EXCEPT ![h] = OutcomeOf(next, e.resp.data)]
        /\ issued' = IF apc[h] = "wait_nonce" THEN issued \cup {e.resp.data} ELSE issued
  /\ inflight' = inflight
  /\ UNCHANGED <<authType, cancelled, areq, adata, nonces, nextNonce, now, mpc, mwake,
                 pending, inOrder, nonceReqs>>
\* BasicAuthResponse.status is a bool: true is carried as authOk here.
\* e.respChannel <- response meets the caller's <-request.respChannel; the
\* handler then runs on to its next use of the actor or to its return
\* (digestUnauthorized puts authResult.data into the 407).
ActorReplyHandler(e) ==
  /\ e \in inflight /\ e.phase = "done" /\ e.from # Maint
  /\ apc[e.from] \in {"wait_validate", "wait_nonce"}
  /\ LET h == e.from
         next == IF apc[h] = "wait_validate" THEN AfterValidate(authType, e.resp.status)
                                             ELSE "rejected"
     IN /\ aresp' = [aresp EXCEPT ![h] = e.resp]
        /\ apc' = [apc EXCEPT ![h] = next]
        /\ aout' = [aout EXCEPT ![h] = OutcomeOf(next, e.resp.data)]
        /\ issued' = IF apc[h] = "wait_nonce" THEN issued \cup {e.resp.data} ELSE issued
  /\ inflight' = inflight \ {e}
  /\ UNCHANGED <<authType, cancelled, areq, adata, nonces, nextNonce, now, mpc, mwake,
                 pending, inOrder, nonceReqs>>

\* The reply to maintPinger: log.Fatal unless the status is maintOk, then
\* time.Sleep(30 * time.Minute).
ActorReplyMaintOnce(e) ==
  /\ e \in inflight /\ e.phase = "done" /\ e.from = Maint
  /\ mpc = "wait"
  /\ mpc' = IF e.resp.status # maintOk THEN "fatal" ELSE "returned"
  /\ mwake' = 0
  /\ inflight' = inflight \ {e}
  /\ UNCHANGED <<authType, cancelled, apc, areq, adata, aresp, aout, nonces, nextNonce, now,
                 pending, inOrder, issued, nonceReqs>>
ActorReplyMaint(e) ==
  /\ e \in inflight /\ e.phase = "done" /\ e.from = Maint
  /\ mpc = "wait"
  /\ mpc' = IF e.resp.status # maintOk THEN "fatal" ELSE "sleep"
  /\ mwake' = now + MaintInterval
  /\ inflight' = inflight \ {e}
  /\ UNCHANGED <<authType, cancelled, apc, areq, adata, aresp, aout, nonces, nextNonce, now,
                 pending, inOrder, issued, nonceReqs>>

\* The Sleep is over and maintPinger loops.
MaintWake ==
  /\ mpc = "sleep"
  /\ now >= mwake
  /\ mpc' = "send"
  /\ mwake' = 0
  /\ UNCHANGED <<authType, cancelled, apc, areq, adata, aresp, aout, inflight, nonces, nextNonce,
                 now, pending, inOrder, issued, nonceReqs>>

\* Time passes.  Only differences to the clock matter, so once the clock
\* stands at MaxTime a tick moves the recorded times back instead; an age
\* beyond the expiry window is kept as the window.
Max(a, b) == IF a >= b THEN a ELSE b

Tick ==
  /\ authType = "digest"
  /\ IF now < MaxTime
       THEN /\ now' = now + 1
            /\ UNCHANGED <<nonces, mwake>>
       ELSE /\ now' = now
            /\ nonces' = { [r EXCEPT !.at = Max(r.at - 1, now - NonceExpiry)] : r \in nonces }
            /\ mwake' = Max(mwake - 1, 0)
  /\ UNCHANGED <<authType, cancelled, apc, areq, adata, aresp, aout, inflight, nextNonce,
                 mpc, pending, inOrder, issued, nonceReqs>>

\* The client of handler h goes away (disconnect or timeout) while the
\* handler is blocked on the actor: the request's context is cancelled
\* (one cancellation per run is followed).
\* authFunc and the validator closure (113-120, 165-169) take no context,
\* so nothing else changes.
WaitingPcs == {"send_validate", "send_nonce", "wait_validate", "wait_nonce"}

CancelRequest(h) ==
  /\ apc[h] \in WaitingPcs
  /\ cancelled = {}
  /\ cancelled' = cancelled \cup {h}
  /\ UNCHANGED <<authType, apc, areq, adata, aresp, aout, inflight, nonces, nextNonce,
                 now, mpc, mwake, pending, inOrder, issued, nonceReqs>>

NextAuth ==
  \/ \E h \in Handlers : AuthArrive(h)
  \/ \E h \in Handlers : ActorReceive(h)
  \/ ActorReceiveMaint
  \/ \E e \in inflight : ActorExecute(e)
  \/ \E e \in inflight : ActorReplyHandler(e)
  \/ \E e \in inflight : ActorReplyMaint(e)
  \/ MaintWake
  \/ Tick
  \/ \E h \in Handlers : CancelRequest(h)

AuthInit == InitAuth /\ HealthParked /\ RouteParked /\ DialParked /\ CredParked /\ ParseParked
AuthNext == NextAuth /\ UNCHANGED <<healthVars, routeVars, dialVars, credVars, parseVars>>
SpecAuth == AuthInit /\ [][AuthNext]_vars

\* The Digest actor under fair scheduling.  The actor goroutine, maintPinger
\* and the handlers blocked on a channel operation keep running; blocked
\* senders on a Go channel are served first come first served, so
\* maintPinger's send is not passed over forever; time passes.
OtherVars == <<healthVars, routeVars, dialVars, credVars, parseVars>>
\* Requests that compete with maintPinger for the actor: without
\* credentials, with a response to a nonce never issued, and with the right
\* response to a nonce of an earlier challenge.
LiveHeaders(known) ==
  { <<>>, DigestHeader(<<"a">>, BogusNonce, <<"b", "a", "d">>) }
  \cup { DigestHeader(<<"a">>, n, ClientResponse(<<"a">>, n, MethodGet)) : n \in known }

AuthArriveLive(h) ==
  /\ apc[h] = "idle"
  /\ \A g \in Handlers : g < h => apc[g] # "idle"
  /\ \E header \in LiveHeaders(issued) : AuthRequest(h, header, FALSE)

NextDigest ==
  \/ \E h \in Handlers : AuthArriveLive(h)
  \/ \E h \in Handlers : ActorReceive(h)
  \/ ActorReceiveMaint
  \/ \E e \in inflight : ActorExecute(e)
  \/ \E e \in inflight : ActorReplyHandler(e)
  \/ \E e \in inflight : ActorReplyMaint(e)
  \/ MaintWake
  \/ Tick

DigestInit == AuthInit /\ authType = "digest"
DigestNext == NextDigest /\ UNCHANGED OtherVars
DigestFairness ==
  /\ SF_vars(ActorReceiveMaint /\ UNCHANGED OtherVars)
  /\ WF_vars((\E e \in inflight : ActorExecute(e)) /\ UNCHANGED OtherVars)
  /\ WF_vars((\E e \in inflight : ActorReplyHandler(e)) /\ UNCHANGED OtherVars)
  /\ WF_vars((\E e \in inflight : ActorReplyMaint(e)) /\ UNCHANGED OtherVars)
  /\ WF_vars(MaintWake /\ UNCHANGED OtherVars)
  /\ WF_vars(Tick /\ UNCHANGED OtherVars)
SpecDigestLive == DigestInit /\ [][DigestNext]_vars /\ DigestFairness

\* Both actors under fair scheduling: as above, and a handler's send is
\* not passed over forever either.
ActorLiveHeaders(type, known) ==
  IF type = "digest" THEN LiveHeaders(known) ELSE BasicClientHeaders

AuthArriveActor(h) ==
  /\ apc[h] = "idle"
  /\ \A g \in Handlers : g < h => apc[g] # "idle"
  /\ \E header \in ActorLiveHeaders(authType, issued) : AuthRequest(h, header, FALSE)

NextActor ==
  \/ \E h \in Handlers : AuthArriveActor(h)
  \/ \E h \in Handlers : ActorReceive(h)
  \/ ActorReceiveMaint
  \/ \E e \in inflight : ActorExecute(e)
  \/ \E e \in inflight : ActorReplyHandler(e)
  \/ \E e \in inflight : ActorReplyMaint(e)
  \/ MaintWake
  \/ Tick

ActorInit == AuthInit
ActorNext == NextActor /\ UNCHANGED OtherVars
ActorFairness ==
  /\ DigestFairness
  /\ \A h \in Handlers : SF_vars(ActorReceive(h) /\ UNCHANGED OtherVars)
SpecActorLive == ActorInit /\ [][ActorNext]_vars /\ ActorFairness

RouteInit == InitRoute /\ HealthParked /\ AuthParked /\ DialParked /\ CredParked /\ ParseParked
RouteNext == NextRoute /\ UNCHANGED <<healthVars, authVars, dialVars, credVars, parseVars>>
SpecRoute == RouteInit /\ [][RouteNext]_vars

HealthInit == InitHealth /\ RouteParked /\ AuthParked /\ DialParked /\ CredParked /\ ParseParked
HealthNext == NextHealth /\ UNCHANGED <<routeVars, authVars, dialVars, credVars, parseVars>>
SpecHealth == HealthInit /\ [][HealthNext]_vars

DialInit == InitDial /\ InitRoute /\ HealthParked /\ AuthParked /\ CredParked /\ ParseParked
DialNext == NextDial /\ UNCHANGED <<healthVars, authVars, credVars, parseVars>>
SpecDial == DialInit /\ [][DialNext]_vars

CredInit == InitCred /\ HealthParked /\ RouteParked /\ AuthParked /\ DialParked /\ ParseParked
CredNext == NextCred /\ UNCHANGED <<healthVars, routeVars, authVars, dialVars, parseVars>>
SpecCred == CredInit /\ [][CredNext]_vars

ParseInit == InitParse /\ HealthParked /\ RouteParked /\ AuthParked /\ DialParked /\ CredParked
ParseNext == NextParse /\ UNCHANGED <<healthVars, routeVars, authVars, dialVars, credVars>>
SpecParse == ParseInit /\ [][ParseNext]_vars

(***************************************************************************)
(* Health tracker: claims                                                  *)
(***************************************************************************)

\* C5: with FailureLimit = L >= 1 and a success recorded, after k consecutive
\* completed RecordFailure calls IsHealthy returns false iff k >= L; a
\* RecordSuccess that has just completed leaves Healthy true and
\* FailureCount 0.
C5_FailureThreshold ==
  (successDone /\ FailureLimit >= 1) =>
    /\ \A t \in HealthThreads :
         hpc[t] = "ih_unlock" =>
           (hret[t] = {FALSE} <=> doneFailures >= FailureLimit)
    /\ (mutex = NoThread /\ lastDoneOp = "RecordSuccess") =>
         (Healthy /\ FailureCount = 0)

\* C5 witness: limit 3, a success, then three failures, and IsHealthy reads false.
C5_Witness ==
  /\ successDone /\ FailureLimit = 3 /\ doneFailures = 3
  /\ \E t \in HealthThreads : hpc[t] = "ih_unlock" /\ hret[t] = {FALSE}

\* C6 as stated: in every reachable state Healthy = false implies
\* FailureCount >= FailureLimit, and FailureCount = 0 after an operation only
\* if that operation was RecordSuccess or no RecordFailure has happened yet.
C6_AsStated ==
  /\ (Healthy = FALSE => FailureCount >= FailureLimit)
  /\ (mutex = NoThread /\ lastDoneOp # None /\ FailureCount = 0) =>
       (lastDoneOp = "RecordSuccess" \/ ~failureEver)

\* C6 amended: Healthy = false implies FailureCount >= FailureLimit unless no
\* RecordSuccess has completed since construction; FailureCount = 0 after an
\* operation only if no RecordFailure has completed since the last completed
\* RecordSuccess (since construction when there is none).
C6_Amended ==
  /\ (Healthy = FALSE => (FailureCount >= FailureLimit \/ ~successDone))
  /\ (mutex = NoThread /\ lastDoneOp # None /\ FailureCount = 0) =>
       doneFailures = 0

\* C6 witness: after a success and enough failures the tracker is unhealthy
\* with the count at the limit.
C6_Witness ==
  /\ successDone /\ mutex = NoThread /\ lastDoneOp = "RecordFailure"
  /\ FailureLimit >= 2 /\ Healthy = FALSE /\ FailureCount = FailureLimit

\* C7: Healthy turns from false to true only in the p.Healthy = true step of
\* RecordSuccess, and once IsHealthy has returned false every IsHealthy
\* returns false until that step is taken.
C7_NoAutoRecovery ==
  [][ /\ (Healthy = FALSE /\ Healthy' = TRUE) =>
           \E t \in HealthThreads : hpc[t] = "rs_healthy" /\ hpc'[t] = "rs_count"
      /\ \A t \in HealthThreads :
           (hpc[t] = "ih_read" /\ hpc'[t] = "ih_unlock" /\ unhealthyReturns > 0) =>
              hret'[t] = {FALSE} ]_vars

\* C7 witness: IsHealthy returned false, a RecordFailure completed, and
\* IsHealthy reads false again.
C7_Witness ==
  /\ unhealthyReturns >= 2 /\ lastDoneOp = "RecordFailure"
  /\ \E t \in HealthThreads : hpc[t] = "ih_unlock" /\ hret[t] = {FALSE}

\* C8: at most one call is inside its critical section; whenever the mutex is
\* free FailureCount equals the number of RecordFailure calls completed since
\* the last completed RecordSuccess; IsHealthy never reads between the two
\* assignments of a RecordSuccess.
C8_MutualExclusion ==
  /\ Cardinality({t \in HealthThreads : hpc[t] \in CriticalPcs}) <= 1
  /\ mutex = NoThread => FailureCount = doneFailures
  /\ \A t, u \in HealthThreads :
       (t # u /\ hpc[t] \in {"ih_read", "ih_unlock"}) => hpc[u] # "rs_count"

\* C8 witness: one call in its critical section while another waits for the
\* mutex, after a failure has been counted.
C8_Witness ==
  \E t, u \in HealthThreads :
    /\ t # u /\ hpc[t] = "rf_write" /\ hpc[u] \in LockPcs
    /\ doneFailures >= 1

(***************************************************************************)
(* Routing: claims                                                         *)
(***************************************************************************)
Resolved == rpc \in {"direct", "upstream", "panic", "done"} /\ ForwardProxySet(conf)

\* No rule key other than "." is a suffix of the host.
NoSuffixKey(host, c) ==
  \A k \in DOMAIN c.Rules : k # Dot => ~HasSuffix(host, k)

\* The "." rule exists and names a proxy whose URL parses.
HasGenericRule(c) ==
  /\ Dot \in DOMAIN c.Rules
  /\ c.Rules[Dot] \in DOMAIN c.Proxies
  /\ UrlParse(c.Proxies[c.Rules[Dot]]) # NilURL

\* The "." rule is absent.
NoGenericRule(c) == Dot \notin DOMAIN c.Rules

\* C9: an outbound connection attempt made through an upstream proxy is
\* followed by exactly one recorded outcome on the health tracker,
\* RecordSuccess when the dial succeeded and RecordFailure when it failed.
C9_AsStated ==
  (rpc = "done" /\ dialVia = "upstream") =>
    /\ hcalls = 1
    /\ lastDoneOp = (IF dialOk = {TRUE} THEN "RecordSuccess" ELSE "RecordFailure")

\* C10: for a host that no non-"." rule key is a suffix of, the resolver
\* returns the proxy of the "." rule when that rule exists, forwardProxyURL
\* only when there is no "." rule, and none only when that is empty too.
C10_AsStated ==
  (Resolved /\ NoSuffixKey(rreq.host, conf)) =>
    /\ HasGenericRule(conf) => route = UrlParse(conf.Proxies[conf.Rules[Dot]])
    /\ (NoGenericRule(conf) /\ ~IsEmptyText(conf.ForwardProxyURL)) =>
          route = UrlParse(conf.ForwardProxyURL)
    /\ (NoGenericRule(conf) /\ IsEmptyText(conf.ForwardProxyURL)) => route = NilURL

\* The rule keys other than "." that the host ends with and whose alias is
\* in the proxy registry.
SuffixKeys(host, c) ==
  { k \in DOMAIN c.Rules :
      k # Dot /\ c.Rules[k] \in DOMAIN c.Proxies /\ HasSuffix(host, k) }

LongestSuffixKey(host, c) ==
  CHOOSE k \in SuffixKeys(host, c) : \A j \in SuffixKeys(host, c) : Len(j) <= Len(k)

\* C11: when some non-"." rule key with a registered alias is a suffix of
\* the host, the resolver returns the proxy URL of the longest such key,
\* whatever the key order and whether or not a "." rule or a forwardProxyURL
\* is configured.
C11_AsStated ==
  (Resolved /\ SuffixKeys(rreq.host, conf) # {}) =>
    route = {conf.Proxies[conf.Rules[LongestSuffixKey(rreq.host, conf)]]}

\* C12: resolution is deterministic: the route returned is the one every
\* arrangement of the keys that the sort may leave gives for the same host
\* and configuration.
C12_Deterministic ==
  Resolved =>
    \A o \in KeyOrders(conf.Rules) : findMatchingProxy(rreq.host, conf, o) = route

\* C12 witness: a route was resolved from a key slice that the sort could
\* have left in another order, and two keys of the same length have
\* registered aliases.
C12_Witness ==
  /\ Resolved /\ route # NilURL
  /\ \E o \in KeyOrders(conf.Rules) : o # keyOrder
  /\ \A k \in DOMAIN conf.Rules : conf.Rules[k] \in DOMAIN conf.Proxies

\* No suffix rule, no "." rule and no forwardProxyURL apply to the host.
NoUpstream(host, c) ==
  NoSuffixKey(host, c) /\ NoGenericRule(c) /\ IsEmptyText(c.ForwardProxyURL)

\* C13: with forward-proxy routing set up, a CONNECT whose host resolves to
\* no upstream is dialled directly and the dial's result is returned; the
\* dial path does not abort.
C13_AsStated ==
  (Resolved /\ rreq.connect /\ NoUpstream(rreq.host, conf)) =>
    /\ rpc \in {"direct", "done"}
    /\ rpc = "done" => dialVia = "direct"


\* The proxy URL text findMatchingProxy selects for the host: that of the
\* longest suffix key, else forwardProxyURL, else that of the "." rule;
\* {} when there is none.
SelectedText(host, c) ==
  IF SuffixKeys(host, c) # {}
    THEN {c.Proxies[c.Rules[LongestSuffixKey(host, c)]]}
  ELSE IF ~IsEmptyText(c.ForwardProxyURL) THEN {c.ForwardProxyURL}
  ELSE IF Dot \in DOMAIN c.Rules /\ c.Rules[Dot] \in DOMAIN c.Proxies
    THEN {c.Proxies[c.Rules[Dot]]}
  ELSE {}

\* C16: when the proxy URL text selected for the host cannot be parsed,
\* resolution ends in a configuration error: no route (another rule's
\* proxy, the generic one) and no direct connection is used for the host.
C16_AsStated ==
  (Resolved /\ SelectedText(rreq.host, conf) \cap MalformedURLs # {}) =>
    /\ rpc = "error"
    /\ route = NilURL
    /\ dialVia = None

(***************************************************************************)
(* Startup and dialers: claims                                             *)
(***************************************************************************)
\* C14: once startup is over, every outbound connection made straight to
\* the destination comes from the custom dialer: keep-alive period of one
\* minute, read/write deadlines, and bound to the local IP when a usable one
\* is configured; also with forward-proxy rules or a forwardProxyURL.
C14_AsStated ==
  (spc = "serving" /\ dconn.kind = "direct") =>
    /\ dconn.dialer = "custom"
    /\ dconn.keepAlive = tcpKeepAliveInterval
    /\ dconn.timed
    /\ checkBindAddressOK(bindIP).addressOk => dconn.local = {bindIP}

\* The header the embedded credentials call for: "Basic " and the base64
\* of the URL-decoded user name, ':' and the URL-decoded password.
ExpectedProxyAuthorization(user) ==
  BasicPrefix \o Base64Encode(Bytes(user.username \o <<":">> \o user.password))

\* C15: a CONNECT sent to an upstream whose URL embeds credentials (also an
\* empty user name with a password) carries exactly one Proxy-Authorization
\* value, "Basic " + base64(user:password) of the decoded pair, whatever
\* the request carried before.
C15_AsStated ==
  (cpc = "sent" /\ cuser.present /\ cuser.passwordSet) =>
    chdr = << ExpectedProxyAuthorization(cuser) >>

(***************************************************************************)
(* Authentication: claims                                                  *)
(***************************************************************************)
Running == {e \in inflight : e.phase = "running"}

\* C1: at most one of validate / newNonce / expireNonces is executing on the
\* auth state at any instant, operations finish in the order in which the
\* actor received their requests, and an expireNonces sweep never overlaps
\* a validation or a nonce issuance.
C1_ActorSerializes ==
  /\ Cardinality(Running) <= 1
  /\ inOrder
  /\ \A e \in Running : e.op = maintPing => \A f \in Running : f = e

\* C1 witness: the sweep is executing while one handler waits to hand in a
\* validation and another a nonce request.
C1_Witness ==
  /\ \E e \in Running : e.op = maintPing
  /\ \E g, h \in Handlers : apc[g] = "send_validate" /\ apc[h] = "send_nonce"

\* The credentials are the right ones for the configured store.
CredentialsGood(type, d) ==
  IF type = "basic" THEN BasicValidate(d)
  ELSE d.user \in DOMAIN DigestStore /\ d.response = DigestExpected(d)

\* C2: a request passes the auth handler only if credentials were parsed
\* from its header and the actor replied success for exactly those
\* credentials; a request whose header is absent, of another scheme or
\* unparsable always ends in a 407 / RejectConnect.
C2_AsStated ==
  /\ \A e \in inflight : e.op = validateUser => e.data = adata[e.from].data
  /\ \A h \in Handlers :
       /\ aout[h].result = "pass" =>
            /\ adata[h].kind = "data"
            /\ aresp[h].status = authOk /\ aresp[h].forFrom = h
            /\ aresp[h].forOp = validateUser
            /\ CredentialsGood(authType, adata[h].data)
       /\ (apc[h] \in TerminalPcs /\ adata[h].kind # "data") => aout[h].result = "407"

\* C3: a Digest request whose header is unparsable or whose validation is
\* answered authFailed sends exactly one getNonce, after its validateUser
\* has been replied, and its 407 carries the nonce that getNonce returned,
\* never the client's nonce; a request answered authOk proceeds without a
\* nonce being issued for it.
C3_AsStated ==
  authType = "digest" =>
    \A h \in Handlers :
      /\ Cardinality({e \in inflight : e.from = h}) <= 1
      /\ apc[h] \in TerminalPcs =>
           IF adata[h].kind = "data" /\ aout[h].result = "pass"
             THEN nonceReqs[h] = 0 /\ aresp[h].status = authOk
             ELSE /\ nonceReqs[h] = 1
                  /\ aout[h].result = "407"
                  /\ aresp[h].forOp = getNonce /\ aresp[h].forFrom = h
                  /\ aout[h].nonce = aresp[h].data
                  /\ aout[h].nonce # adata[h].data.nonce

\* C4: for every header value whose scheme token is Digest, also one with an
\* empty parameter list or a token without '=', getDigestAuthData returns
\* data or no data without aborting, and a request it returns no data for
\* ends in a 407 challenge.
C4_AsStated ==
  authType = "digest" =>
    \A h \in Handlers :
      /\ adata[h].kind \in {"none", "nil", "data"}
      /\ (apc[h] \in TerminalPcs /\ adata[h].kind = "nil") => aout[h].result = "407"

\* C17: every nonce in the registry was issued less than the expiry window
\* ago, in every state, also between two maintenance sweeps.
C17_AsStated ==
  \A r \in nonces : now - r.at < NonceExpiry

\* The nonce is in the registry and inside its expiry window.
NonceFresh(n) == \E r \in nonces : r.nonce = n /\ now - r.at < NonceExpiry

\* C18: a validateUser carrying an issued nonce and the correct response
\* for it is answered authOk while the nonce is inside its expiry window
\* (so also when it is processed right after the getNonce) and authFailed
\* once the window has elapsed, wherever in the maintenance cycle it comes.
C18_AsStated ==
  [][ \A e \in inflight :
        ( /\ authType = "digest"
          /\ e.phase = "running" /\ e.op = validateUser
          /\ e.data.nonce \in issued
          /\ CredentialsGood("digest", e.data)
          /\ e \notin inflight' )
        => \A f \in inflight' :
             (f.from = e.from /\ f.phase = "done") =>
               f.resp.status = (IF NonceFresh(e.data.nonce) THEN authOk ELSE authFailed)
    ]_vars

\* C19: maintPinger has at most one request outstanding and sweeps again
\* and again, and under fair scheduling every nonce in the registry is
\* eventually removed, whatever validation and issuance requests compete.
C19_NoncesExpire ==
  /\ [](Cardinality({e \in inflight : e.from = Maint}) <= 1)
  /\ []<>(\E e \in inflight : e.op = maintPing /\ e.phase = "running")
  /\ \A k \in 1..NumHandlers :
       (NonceText(k) \in RegisteredNonces(nonces))
         ~> (NonceText(k) \notin RegisteredNonces(nonces))

\* C19 witness: a nonce that was sent to a client has been swept from the
\* registry while a handler was waiting to hand its request to the actor.
C19_Witness ==
  /\ \E n \in issued : n \notin RegisteredNonces(nonces)
  /\ \E h \in Handlers : apc[h] \in SendPcs
  /\ mpc = "sleep"

\* C20: a handler whose request is cancelled while it waits to hand a
\* request to the actor or waits for the actor's reply stops waiting.
C20_AsStated ==
  \A h \in cancelled : apc[h] \notin WaitingPcs

(***************************************************************************)
(* Header parsing and the 407 response: claims                             *)
(***************************************************************************)
ParamList == RenderList(pgen, 1)

\* 0-based position of the comma that follows token i of the list.
RECURSIVE JoinPosition(_, _)
JoinPosition(toks, i) ==
  IF i = 0 THEN -2 ELSE JoinPosition(toks, i - 1) + 2 + Len(RenderToken(toks[i]))

\* The value the client gave for key: that of its last parameter, "" when
\* there is none.
GivenValue(toks, key) ==
  LET idx == {i \in 1..Len(toks) : ~toks[i].bare /\ toks[i].key = key}
  IN IF idx = {} THEN <<>>
     ELSE toks[CHOOSE i \in idx : \A j \in idx : j <= i].value

GivenDigestData(toks, method) ==
  [user     |-> GivenValue(toks, KeyUsername),
   realm    |-> GivenValue(toks, KeyRealm),
   nonce    |-> GivenValue(toks, KeyNonce),
   uri      |-> GivenValue(toks, KeyUri),
   response |-> GivenValue(toks, KeyResponse),
   qop      |-> GivenValue(toks, KeyQop),
   nc       |-> GivenValue(toks, KeyNc),
   cnonce   |-> GivenValue(toks, KeyCnonce),
   method   |-> method]

AllPairs(toks) == \A i \in 1..Len(toks) : ~toks[i].bare

\* C21: in a Digest parameter list the separating commas are exactly the
\* ones between parameters, never one inside a quoted value; each token is
\* one parameter as the client wrote it; and when every parameter has the
\* form key=value the parser returns, for every known key, the value the
\* client gave with its quotes removed (unknown keys leave no trace) and the
\* method of the request.
C21_QuotedCommas ==
  ptype = "digest" =>
    /\ SeparateCommas(ParamList) = [i \in 1..(Len(pgen) - 1) |-> JoinPosition(pgen, i)]
    /\ Tokens(ParamList) = [i \in 1..Len(pgen) |-> RenderToken(pgen[i])]
    /\ (ppc # "start" /\ AllPairs(pgen)) =>
         pdata = ParsedData(GivenDigestData(pgen, pmethod))

\* realm="r,x" followed by uri="/a,b": both values arrive whole.
C21_Witness ==
  /\ ptype = "digest" /\ ppc = "validate"
  /\ Len(pgen) = 2 /\ pgen[1].key = KeyRealm /\ pgen[2].key = KeyUri
  /\ pdata.data.realm = <<"r", ",", "x">>
  /\ pdata.data.uri = <<"/", "a", ",", "b">>

\* What the client's credentials say, read off the text it encoded.
GivenBasicData(g) ==
  LET i == IndexOf(g.text, ":")
  IN [user |-> Bytes(SubSeq(g.text, 1, i - 1)),
      password |-> Bytes(SubSeq(g.text, i + 1, Len(g.text)))]

SendsBasicCredentials(g) ==
  /\ ~g.absent /\ g.scheme = SchemeBasic /\ g.blank /\ g.encoded
  /\ \E i \in 1..Len(g.text) : g.text[i] = ":"

\* C22: the Basic parser returns no data when the header is absent, the
\* scheme is not Basic, the payload is not valid base64 or the decoded text
\* has no ':'; in every other case it returns the part before the first ':'
\* as the user and everything after it as the password, an empty user or
\* password included.
C22_BasicParsing ==
  (ptype = "basic" /\ ppc # "start") =>
    IF SendsBasicCredentials(pgen)
      THEN pdata = ParsedData(GivenBasicData(pgen))
      ELSE pdata.kind = "nil"

\* ":p:a" was sent: the user is empty and the password keeps its colon.
C22_Witness ==
  /\ ptype = "basic" /\ ppc = "validate"
  /\ pgen.text = <<":", "p", ":", "a">>
  /\ pdata.data.user = <<>>
  /\ pdata.data.password = Bytes(<<"p", ":", "a">>)

\* C23: every 407 of the Basic and the Digest handler carries the body
\* "407 Proxy Authentication Required" and a Content-Length of 33, whatever
\* the realm and the nonce are.
C23_FixedBody ==
  ppc = "rejected" =>
    /\ presp.StatusCode = 407
    /\ presp.Body = unauthorizedMsg
    /\ presp.ContentLength = 33
    /\ Len(presp.Body) = presp.ContentLength

\* A Basic 407 for a six-character realm.
C23_Witness ==
  /\ ppc = "rejected" /\ ptype = "basic"
  /\ prealm = <<"r", "e", "a", "l", "m", "s">>
  /\ presp.ContentLength = 33

OtherHeaders(h) == [n \in (DOMAIN h) \ {ProxyAuthorizatonHeader} |-> h[n]]

\* C27: once the handler has taken up a request the request carries no
\* Proxy-Authorization header any more, whether the header was absent, of
\* the wrong scheme, unparsable, rejected or accepted, and every other
\* header is what it was.
C27_HeaderRemoved ==
  [][ /\ (ppc = "start" /\ ppc' # "start") =>
           /\ ProxyAuthorizatonHeader \notin DOMAIN phdrs'
           /\ OtherHeaders(phdrs') = OtherHeaders(phdrs)
      /\ ppc # "start" => phdrs' = phdrs ]_vars

\* Accepted credentials, sent twice in the request: only Accept is left.
C27_Witness ==
  /\ ppc = "passed"
  /\ DOMAIN phdrs = {AcceptHeader}
  /\ ~HeaderAbsent(ptype, pgen)

(***************************************************************************)
(* Actor functions: replies                                                *)
(***************************************************************************)
RequestsOf(c) == {e \in inflight : e.from = c}

\* C24: a call of an actor function gets exactly one reply and it is the
\* answer to its own request.  While a caller waits, the actor holds exactly
\* one request of it, for the operation it called with its own data; it
\* holds none of a caller that is not waiting; an answer is built for the
\* request it is stored with, and the answer a handler received was built
\* for that handler (for Basic: the verdict on its own credentials).
C24_ReplyMatches ==
  /\ \A h \in Handlers :
       /\ apc[h] \in {"wait_validate", "wait_nonce"} =>
            /\ Cardinality(RequestsOf(h)) = 1
            /\ \A e \in RequestsOf(h) :
                 /\ e.op = (IF apc[h] = "wait_validate" THEN validateUser ELSE getNonce)
                 /\ e.op = validateUser => e.data = adata[h].data
       /\ apc[h] \notin {"wait_validate", "wait_nonce"} => RequestsOf(h) = {}
       /\ aresp[h] # NoResponse =>
            /\ aresp[h].forFrom = h
            /\ aresp[h].forOp \in {validateUser, getNonce}
            /\ (authType = "basic" /\ apc[h] \in TerminalPcs) =>
                 aresp[h].status = StatusOf(BasicValidate(adata[h].data))
            /\ (apc[h] = "rejected" /\ aresp[h].forOp = getNonce) =>
                 aout[h].nonce = aresp[h].data
  /\ Cardinality(RequestsOf(Maint)) = (IF mpc = "wait" THEN 1 ELSE 0)
  /\ \A e \in inflight :
       e.phase = "done" => (e.resp.forFrom = e.from /\ e.resp.forOp = e.op)

\* Two handlers have both had their answers, one a pass, one a 407.
C24_Witness ==
  \E g, h \in Handlers :
    /\ g # h
    /\ apc[g] = "passed" /\ aresp[g].forFrom = g
    /\ apc[h] = "rejected" /\ aresp[h].forFrom = h

Receiving(c) ==
  IF c = Maint THEN mpc = "wait" ELSE apc[c] \in {"wait_validate", "wait_nonce"}

\* The actor is never stuck with an answer nobody takes.
NoMutualBlock == \A e \in inflight : Receiving(e.from)

\* C25: under fair scheduling every call of an actor function returns, for
\* handlers and for maintPinger, and in no reachable state does the actor
\* hold a request whose caller is not receiving on its response channel.
C25_CallsReturn ==
  /\ []NoMutualBlock
  /\ \A h \in Handlers :
       /\ (apc[h] \in {"send_validate", "wait_validate"})
            ~> (apc[h] \notin {"send_validate", "wait_validate"})
       /\ (apc[h] \in {"send_nonce", "wait_nonce"}) ~> (apc[h] = "rejected")
  /\ (mpc \in {"send", "wait"}) ~> (mpc = "sleep")

\* Every handler is blocked on the actor while it answers maintPinger.
C25_Witness ==
  /\ \A h \in Handlers : apc[h] \in SendPcs
  /\ \E e \in inflight : e.from = Maint /\ e.phase = "done"

StatusesOf(op) ==
  CASE op = validateUser -> {authOk, authFailed}
    [] op = getNonce     -> {nonceOk}
    [] op = maintPing    -> {maintOk}

\* C26: the status of an answer belongs to the operation asked for: authOk
\* or authFailed for validateUser, nonceOk with a nonce for getNonce, maintOk
\* for maintPing.  So maintPinger never reaches log.Fatal, and a handler
\* panics only where the parser panicked, never at "unreachable point".
C26_StatusMatchesOp ==
  /\ \A e \in inflight :
       e.phase = "done" =>
         /\ e.resp.status \in StatusesOf(e.op)
         /\ e.op = getNonce => e.resp.data # <<>>
  /\ \A h \in Handlers :
       /\ aresp[h] # NoResponse => aresp[h].status \in StatusesOf(aresp[h].forOp)
       /\ apc[h] = "panic" => adata[h].kind = "panic"
  /\ mpc # "fatal"

\* A Digest handler was refused and then given a nonce, and maintPinger
\* sleeps after its answer.
C26_Witness ==
  /\ authType = "digest" /\ mpc = "sleep"
  /\ \E h \in Handlers :
       /\ apc[h] = "rejected" /\ adata[h].kind = "data"
       /\ aresp[h].forOp = getNonce /\ aresp[h].status = nonceOk

================================================================
